---- MODULE Spec2Model ----
(***************************************************************************)
(* Planning core of the workout application: the progression state machine *)
(* (StudyEngine v3.1), the session planner (SessionEngine v3.0) and the    *)
(* biomechanical classifier and filter (BiomechanicalEngine v2.1).         *)
(***************************************************************************)
EXTENDS Integers, Sequences, FiniteSets, TLC

VARIABLES
  lsState,        \* localStorage[LS_KEY]: << >> when absent, <<JSON document of the state>> when saved
  lsToday,        \* localStorage, the "today session" entries: cache key -> stored plan
  lsHistory,      \* localStorage[LS_HISTORY_KEY]: the list of completed sessions
  lsExport,       \* localStorage[LS_EXPORT_KEY]: << >> when absent, <<blob>> when saved
  db,             \* the coordinator's exerciseDB: << >> until loaded, then <<catalog>>
  ui,             \* the flag controls of the page: << >> until set, then <<flags>>
  currentSession, \* the coordinator's currentSession: << >> or <<plan>>
  today,          \* the calendar day todayISO() reports (day of the month)
  nApplied,       \* number of applySessionResult calls made so far
  lastOp,         \* the operation that made the last step, with its inputs
  ret,            \* what the operation of the last step returned: << >> or <<value>>
  preClamp,       \* posterior.setBase just before the global constraint of the last applySessionResult
  rngX,           \* state x of the generator of the last generateSession call
  firstRet        \* cache key -> what the first getOrCreateTodaySession call for the key returned

vars == <<lsState, lsToday, lsHistory, lsExport, db, ui, currentSession, today, nApplied,
          lastOp, ret, preClamp, rngX, firstRet>>

-----------------------------------------------------------------------------
(* Bounds of the model *)

MaxDay == 2

MaxProgSessions == 19

MaxCompletions == 2

-----------------------------------------------------------------------------
(* StudyEngine v3.1: menus and helpers *)

REP_MENU == <<8, 10, 12, 14, 16, 18, 20>>

BAND_MENU == <<15, 25, 35>>

EASY == 1

MOD == 2

HARD == 3

NoDay == 0

\* null / undefined where a record is expected
Nil == [nil |-> TRUE]

\* A value that the code computes once and then reads several times (const v = ...)
\* is drawn from the singleton set of it, CHOOSE r \in { F(v) : v \in { e } } : TRUE,
\* so that e is evaluated once.

Min2(a, b) == IF a <= b THEN a ELSE b

Max2(a, b) == IF a >= b THEN a ELSE b

clamp(n, a, b) == Max2(a, Min2(b, n))

\* REP_MENU[i] with the 0-based index of the source
repAt(i) == REP_MENU[i + 1]

\* BAND_MENU.indexOf(band): 0-based, -1 when absent
bandIndexOf(band) ==
  IF \E i \in 1..Len(BAND_MENU) : BAND_MENU[i] = band
  THEN (CHOOSE i \in 1..Len(BAND_MENU) : BAND_MENU[i] = band) - 1
  ELSE -1

\* Math.floor(n * 1.2) for the small set counts of the program
floorTimesCap(n) == (n * 12) \div 10

defaultState ==
  [ version |-> "3.1",
    week |-> 1,
    sessionInWeek |-> 0,
    streak |-> 0,
    lastCompletedDay |-> NoDay,
    hardSessionsInRow |-> 0,
    deloadArmed |-> FALSE,
    prog |-> [ pull      |-> [repIndex |-> 1, band |-> 15, setBase |-> 3],
               push      |-> [repIndex |-> 1, band |-> 15, setBase |-> 3],
               posterior |-> [repIndex |-> 1, band |-> 15, setBase |-> 2],
               core      |-> [holdSeconds |-> 25, setBase |-> 2] ] ]

\* jstring(st) of a state: the JSON text as the flat list of its members, a
\* member of a family record under the name family_member; prog holds the
\* families the prog object has
jstringState(st) ==
  [ version |-> st.version, week |-> st.week, sessionInWeek |-> st.sessionInWeek,
    streak |-> st.streak, lastCompletedDay |-> st.lastCompletedDay,
    hardSessionsInRow |-> st.hardSessionsInRow, deloadArmed |-> st.deloadArmed,
    prog |-> DOMAIN st.prog,
    pull_repIndex |-> st.prog.pull.repIndex, pull_band |-> st.prog.pull.band,
    pull_setBase |-> st.prog.pull.setBase,
    push_repIndex |-> st.prog.push.repIndex, push_band |-> st.prog.push.band,
    push_setBase |-> st.prog.push.setBase,
    posterior_repIndex |-> st.prog.posterior.repIndex, posterior_band |-> st.prog.posterior.band,
    posterior_setBase |-> st.prog.posterior.setBase,
    core_holdSeconds |-> st.prog.core.holdSeconds, core_setBase |-> st.prog.core.setBase ]

\* st[k] of the parsed document whose members are has, dflt when it has no
\* such member
memberOr(doc, has, k, dflt) == IF k \in has THEN doc[k] ELSE dflt

\* st.prog[f] || dflt
familyOr(doc, f, dflt) ==
  IF f \notin doc.prog THEN dflt
  ELSE CASE f = "pull" ->
              [repIndex |-> doc.pull_repIndex, band |-> doc.pull_band, setBase |-> doc.pull_setBase]
         [] f = "push" ->
              [repIndex |-> doc.push_repIndex, band |-> doc.push_band, setBase |-> doc.push_setBase]
         [] f = "posterior" ->
              [repIndex |-> doc.posterior_repIndex, band |-> doc.posterior_band,
               setBase |-> doc.posterior_setBase]
         [] f = "core" ->
              [holdSeconds |-> doc.core_holdSeconds, setBase |-> doc.core_setBase]

\* the state loadState makes of a parsed document: the forward-safe defaults
withDefaults(doc, has) ==
  IF "prog" \notin has
  THEN defaultState
  ELSE [ version |-> memberOr(doc, has, "version", "3.1"),
         week |-> memberOr(doc, has, "week", 1),
         sessionInWeek |-> memberOr(doc, has, "sessionInWeek", 0),
         streak |-> memberOr(doc, has, "streak", 0),
         lastCompletedDay |-> memberOr(doc, has, "lastCompletedDay", NoDay),
         hardSessionsInRow |-> memberOr(doc, has, "hardSessionsInRow", 0),
         deloadArmed |-> memberOr(doc, has, "deloadArmed", FALSE),
         prog |-> [ pull      |-> familyOr(doc, "pull", defaultState.prog.pull),
                    push      |-> familyOr(doc, "push", defaultState.prog.push),
                    posterior |-> familyOr(doc, "posterior", defaultState.prog.posterior),
                    core      |-> familyOr(doc, "core", defaultState.prog.core) ] ]

\* loadState(): raw is what localStorage holds under LS_KEY, << >> for nothing
loadState(raw) ==
  IF Len(raw) = 0 THEN defaultState
  ELSE CHOOSE st \in { withDefaults(raw[1], has) : has \in { DOMAIN raw[1] } } : TRUE

\* a saveState whose document has no week member
saveStateWithoutWeek(s) ==
  <<[k \in DOMAIN jstringState(s) \ {"week"} |-> jstringState(s)[k]]>>

\* saveState(st): what localStorage holds under LS_KEY afterwards
saveState(s) == <<jstringState(s)>>

-----------------------------------------------------------------------------
(* StudyEngine.applySessionResult *)

\* a streak that grows with every later day
streakUpdateNoReset(s, dayKey) ==
  IF s.lastCompletedDay # NoDay /\ dayKey - s.lastCompletedDay < 1 THEN s.streak
  ELSE IF s.lastCompletedDay # NoDay THEN s.streak + 1
  ELSE 1

streakUpdate(s, dayKey) ==
  IF s.lastCompletedDay # NoDay
  THEN LET diff == dayKey - s.lastCompletedDay
       IN  IF diff = 1 THEN s.streak + 1
           ELSE IF diff > 1 THEN 1
           ELSE s.streak
  ELSE 1

hardRow(s, rpe3) == IF rpe3 = HARD THEN s.hardSessionsInRow + 1 ELSE 0

armDeload(s, hardInRow) == IF hardInRow >= 2 THEN TRUE ELSE s.deloadArmed

\* a band jump that leaves the reps where they were
progressBandKeepingReps(p) ==
  LET idx == bandIndexOf(p.band)
  IN  IF idx >= 0 /\ idx < Len(BAND_MENU) - 1
      THEN [p EXCEPT !.band = BAND_MENU[idx + 2]]
      ELSE p

progressBandIfPossible(p) ==
  LET idx == bandIndexOf(p.band)
  IN  IF idx >= 0 /\ idx < Len(BAND_MENU) - 1
      THEN [p EXCEPT !.band = BAND_MENU[idx + 2], !.repIndex = 2]
      ELSE p

\* a hold that moves by 5 seconds without the range
advanceCoreUnclamped(p, rpe3) ==
  [p EXCEPT !.holdSeconds = IF rpe3 # HARD THEN p.holdSeconds + 5 ELSE p.holdSeconds - 5]

\* a hold that grows whatever the effort
advanceCoreUpOnly(p, rpe3) == [p EXCEPT !.holdSeconds = clamp(p.holdSeconds + 5, 15, 60)]

advanceCore(p, rpe3) ==
  IF rpe3 # HARD
  THEN [p EXCEPT !.holdSeconds = clamp(p.holdSeconds + 5, 15, 60)]
  ELSE [p EXCEPT !.holdSeconds = clamp(p.holdSeconds - 5, 15, 60)]

\* a regression without the floor
stepDownUnfloored(p) == [p EXCEPT !.repIndex = p.repIndex - 1]

\* prog.repIndex = clamp(prog.repIndex - 1, 0, REP_MENU.length - 1)
stepDown(p) == [p EXCEPT !.repIndex = clamp(p.repIndex - 1, 0, Len(REP_MENU) - 1)]

\* base sets that grow without the cap
growSetBaseUncapped(p) == [p EXCEPT !.setBase = p.setBase + 1]

\* prog.setBase = clamp(prog.setBase + 1, 2, 5)
growSetBase(p) == [p EXCEPT !.setBase = clamp(p.setBase + 1, 2, 5)]

\* a failure test that counts every result below the target
failedBelowTarget(repsDone, target, rpe3) == repsDone < target \/ rpe3 = HARD

\* const fail = (repsDone < Math.max(6, target - 4)) || (rpe3 === RPE3.HARD)
failed(repsDone, target, rpe3) == repsDone < Max2(6, target - 4) \/ rpe3 = HARD

advanceFamily(p, repsDone, rpe3, deloadArmed) ==
  IF deloadArmed
  THEN stepDown(p)
  ELSE
    LET target  == repAt(clamp(p.repIndex, 0, Len(REP_MENU) - 1))
        success == repsDone >= target /\ rpe3 # HARD
        fail    == failed(repsDone, target, rpe3)
    IN  IF success
        THEN IF p.repIndex < Len(REP_MENU) - 1
             THEN [p EXCEPT !.repIndex = p.repIndex + 1]
             ELSE LET up == progressBandIfPossible(p)
                  IN  IF up # p THEN up
                      ELSE growSetBase(p)
        ELSE IF fail
        THEN stepDown(p)
        ELSE p

maxPosteriorOf(pull) == Max2(1, floorTimesCap(pull.setBase))

\* the constraint left out
constrainPosteriorSkipped(post, pull) == post

constrainPosterior(post, pull) ==
  [post EXCEPT !.setBase = Min2(post.setBase, maxPosteriorOf(pull))]

nextSessionInWeek(s) == (s.sessionInWeek + 1) % 3

\* the week counted per session instead of per three sessions
nextWeekEverySession(s, siw) == s.week + 1

nextWeek(s, siw) == IF siw = 0 THEN s.week + 1 ELSE s.week

consumeDeload(armed) == IF armed THEN FALSE ELSE armed

\* the family records after the four advanceFamily calls, before the constraint
advancedProg(s, r) ==
  LET rpe3  == clamp(IF r.rpe3 = 0 THEN MOD ELSE r.rpe3, 1, 3)
      armed == armDeload(s, hardRow(s, rpe3))
  IN  [ pull      |-> advanceFamily(s.prog.pull, r.summary.pull, rpe3, armed),
        push      |-> advanceFamily(s.prog.push, r.summary.push, rpe3, armed),
        posterior |-> advanceFamily(s.prog.posterior, r.summary.posterior, rpe3, armed),
        core      |-> advanceCore(s.prog.core, rpe3) ]

applySessionResult(s, r) ==
  LET rpe3  == clamp(IF r.rpe3 = 0 THEN MOD ELSE r.rpe3, 1, 3)
      hard  == hardRow(s, rpe3)
      armed == armDeload(s, hard)
      adv   == advancedProg(s, r)
      siw   == nextSessionInWeek(s)
  IN  [ version |-> s.version,
        week |-> nextWeek(s, siw),
        sessionInWeek |-> siw,
        streak |-> streakUpdate(s, r.dayKey),
        lastCompletedDay |-> r.dayKey,
        hardSessionsInRow |-> hard,
        deloadArmed |-> consumeDeload(armed),
        prog |-> [adv EXCEPT !.posterior = constrainPosterior(adv.posterior, adv.pull)] ]

-----------------------------------------------------------------------------
(* Movement catalog. A catalog entry carries its name and, in kw, the keywords *)
(* of the engines that occur in the lowercased name (what name.includes(k)     *)
(* and the name regular expressions test). An optional field is << >> when     *)
(* absent and <<value>> when present; an absent string is "".                  *)

exRow ==
    [ id |-> "row", name |-> "Band row",
      kw |-> {"row"},
      tags |-> {}, family |-> "", movement_pattern |-> "",
      requiresAnchor |-> << >>, hinge |-> FALSE, antiRotation |-> FALSE, antiExtension |-> FALSE,
      allowedMaxBand |-> << >>, adaptedId |-> "", adaptedVersion |-> << >> ]

exPushUp ==
    [ id |-> "pushup", name |-> "Push-up",
      kw |-> {"push", "push-up"},
      tags |-> {}, family |-> "", movement_pattern |-> "",
      requiresAnchor |-> << >>, hinge |-> FALSE, antiRotation |-> FALSE, antiExtension |-> FALSE,
      allowedMaxBand |-> << >>, adaptedId |-> "", adaptedVersion |-> << >> ]

exBridge ==
    [ id |-> "bridge", name |-> "Glute bridge",
      kw |-> {"bridge", "glute", "glute bridge"},
      tags |-> {}, family |-> "", movement_pattern |-> "",
      requiresAnchor |-> << >>, hinge |-> FALSE, antiRotation |-> FALSE, antiExtension |-> FALSE,
      allowedMaxBand |-> << >>, adaptedId |-> "", adaptedVersion |-> << >> ]

exRdl ==
    [ id |-> "rdl", name |-> "Romanian deadlift",
      kw |-> {"deadlift", "romanian"},
      tags |-> {}, family |-> "", movement_pattern |-> "",
      requiresAnchor |-> << >>, hinge |-> FALSE, antiRotation |-> FALSE, antiExtension |-> FALSE,
      allowedMaxBand |-> << >>, adaptedId |-> "", adaptedVersion |-> << >> ]

exCalf ==
    [ id |-> "", name |-> "Calf raise",
      kw |-> {"calf"},
      tags |-> {}, family |-> "", movement_pattern |-> "",
      requiresAnchor |-> << >>, hinge |-> FALSE, antiRotation |-> FALSE, antiExtension |-> FALSE,
      allowedMaxBand |-> << >>, adaptedId |-> "", adaptedVersion |-> << >> ]

exPlank ==
    [ id |-> "plank", name |-> "Plank",
      kw |-> {"plank"},
      tags |-> {}, family |-> "", movement_pattern |-> "",
      requiresAnchor |-> << >>, hinge |-> FALSE, antiRotation |-> FALSE, antiExtension |-> FALSE,
      allowedMaxBand |-> << >>, adaptedId |-> "", adaptedVersion |-> << >> ]

exGoodMorning ==
    [ id |-> "gm", name |-> "Good morning",
      kw |-> {"good morning"},
      tags |-> {}, family |-> "", movement_pattern |-> "",
      requiresAnchor |-> << >>, hinge |-> FALSE, antiRotation |-> FALSE, antiExtension |-> FALSE,
      allowedMaxBand |-> << >>, adaptedId |-> "", adaptedVersion |-> << >> ]

exSquat ==
    [ id |-> "squat", name |-> "Goblet squat",
      kw |-> {"squat"},
      tags |-> {}, family |-> "", movement_pattern |-> "",
      requiresAnchor |-> << >>, hinge |-> FALSE, antiRotation |-> FALSE, antiExtension |-> FALSE,
      allowedMaxBand |-> <<35>>, adaptedId |-> "", adaptedVersion |-> << >> ]

exPressHold ==
    [ id |-> "presshold", name |-> "Overhead press hold",
      kw |-> {"hold", "press"},
      tags |-> {}, family |-> "", movement_pattern |-> "",
      requiresAnchor |-> << >>, hinge |-> FALSE, antiRotation |-> FALSE, antiExtension |-> FALSE,
      allowedMaxBand |-> << >>, adaptedId |-> "", adaptedVersion |-> << >> ]

exDoorRow ==
    [ id |-> "doorrow", name |-> "Door anchor row",
      kw |-> {"anchor", "door", "row"},
      tags |-> {}, family |-> "", movement_pattern |-> "",
      requiresAnchor |-> << >>, hinge |-> FALSE, antiRotation |-> FALSE, antiExtension |-> FALSE,
      allowedMaxBand |-> << >>, adaptedId |-> "", adaptedVersion |-> << >> ]

exPullApart ==
    [ id |-> "", name |-> "Band pull-apart",
      kw |-> {"pull-apart"},
      tags |-> {}, family |-> "", movement_pattern |-> "",
      requiresAnchor |-> << >>, hinge |-> FALSE, antiRotation |-> FALSE, antiExtension |-> FALSE,
      allowedMaxBand |-> << >>, adaptedId |-> "", adaptedVersion |-> << >> ]

exPullThrough ==
    [ id |-> "pullthrough", name |-> "Cable pull-through",
      kw |-> {},
      tags |-> {}, family |-> "posterior", movement_pattern |-> "",
      requiresAnchor |-> <<TRUE>>, hinge |-> FALSE, antiRotation |-> FALSE, antiExtension |-> FALSE,
      allowedMaxBand |-> << >>, adaptedId |-> "rdl", adaptedVersion |-> << >> ]

exLatPull ==
    [ id |-> "latpull", name |-> "Lat pulldown",
      kw |-> {},
      tags |-> {}, family |-> "", movement_pattern |-> "",
      requiresAnchor |-> <<TRUE>>, hinge |-> FALSE, antiRotation |-> FALSE, antiExtension |-> FALSE,
      allowedMaxBand |-> << >>, adaptedId |-> "", adaptedVersion |-> <<exPullApart>> ]

exDoorPress ==
    [ id |-> "doorpress", name |-> "Door chest press",
      kw |-> {"door", "press"},
      tags |-> {}, family |-> "", movement_pattern |-> "",
      requiresAnchor |-> << >>, hinge |-> FALSE, antiRotation |-> FALSE, antiExtension |-> FALSE,
      allowedMaxBand |-> << >>, adaptedId |-> "", adaptedVersion |-> << >> ]

\* the catalogs the planner is run against
Catalogs ==
  { <<exRow, exPushUp, exBridge, exRdl, exCalf, exPlank>>,
    <<exRdl, exGoodMorning>>,
    <<exDoorRow, exPushUp, exPullThrough, exRdl>>,
    <<exPressHold, exRow, exSquat, exLatPull>>,
    <<exDoorPress, exDoorRow>>,
    << >> }

-----------------------------------------------------------------------------
(* TrainingKnowledge: dose types *)

REPS == "reps"

SECONDS == "seconds"

MIXED == "mixed"

\* has(s) of classifyDoseType: the name includes s or a tag equals s
hasNameOrTag(ex, ks) == (ex.kw \cup ex.tags) \cap ks # {}

classifyDoseType(ex) ==
  IF hasNameOrTag(ex, {"plank", "side plank", "hollow", "hold", "isometric", "iso",
                       "dead bug hold", "bridge hold", "wall sit"})
  THEN SECONDS
  ELSE IF hasNameOrTag(ex, {"tenuta", "pause", "isometria"}) THEN MIXED
  ELSE REPS

\* the prescription.unit that normalizeExercisePrescription leaves ("" when none)
normalizeExercisePrescription(ex) ==
  IF classifyDoseType(ex) = SECONDS \/ ex.kw \cap {"side plank", "plank laterale"} # {}
  THEN "seconds"
  ELSE ""

-----------------------------------------------------------------------------
(* BiomechanicalEngine v2.1 *)

hasAny(ex, ks) == ex.kw \cap ks # {}

\* normalizeExercise: the anchor flag, the tags and the prescription unit
normalizeExercise(ex) ==
  LET withTags ==
        [ex EXCEPT !.tags = ex.tags
                            \cup (IF ex.family # "" THEN {ex.family} ELSE {})
                            \cup (IF ex.movement_pattern # "" THEN {ex.movement_pattern} ELSE {})]
  IN  [ requiresAnchor |-> IF Len(ex.requiresAnchor) > 0 THEN ex.requiresAnchor[1]
                           ELSE hasAny(ex, {"anchor", "door", "porta", "ancor", "fiss"}),
        tags |-> withTags.tags,
        unit |-> normalizeExercisePrescription(withTags) ]

classify(ex) ==
  LET n0 == normalizeExercise(ex)
      ex0 == [ex EXCEPT !.tags = n0.tags]
      doseType == classifyDoseType(ex0)
      hinge == ex.hinge \/ hasAny(ex, {"rdl", "romanian", "good morning", "hip hinge", "deadlift", "stacco"})
      antiRotation == ex.antiRotation \/ hasAny(ex, {"pallof", "anti-rot"})
      antiExtension == ex.antiExtension \/ hasAny(ex, {"plank", "hollow", "dead bug", "anti-ext"})
      isIsometric == doseType = SECONDS \/ hasAny(ex, {"hold", "isometric", "iso"})
      family ==
        IF ex.family # "" THEN ex.family
        ELSE IF hasAny(ex, {"plank", "dead bug", "hollow", "core"}) THEN "core"
        ELSE IF hasAny(ex, {"squat", "lunge", "deadlift", "rdl", "glute", "hip", "calf", "tibialis"})
             THEN "posterior"
        ELSE "upper"
      pattern ==
        IF ex.movement_pattern # "" THEN ex.movement_pattern
        ELSE IF hinge THEN "hinge"
        ELSE IF family = "core" /\ antiRotation THEN "anti_rotation"
        ELSE IF family = "core" /\ antiExtension THEN "anti_extension"
        ELSE IF family = "core" THEN "core_general"
        ELSE IF family = "upper" /\ hasAny(ex, {"push", "press", "dip"}) THEN "push"
        ELSE IF family = "upper" THEN "pull"
        ELSE "general"
      coreAntiExt == family = "core" /\ antiExtension
      compressive == IF coreAntiExt THEN 0 ELSE IF hinge THEN 2 ELSE IF isIsometric THEN 0 ELSE 1
      shear == IF coreAntiExt THEN 1 ELSE IF hinge THEN 2
               ELSE IF isIsometric THEN (IF antiRotation THEN 0 ELSE 1) ELSE 1
      lumbar == IF coreAntiExt THEN 1 ELSE IF hinge THEN 2 ELSE 1
  IN  [ id |-> ex.id, name |-> ex.name, kw |-> ex.kw, tags |-> n0.tags,
        requiresAnchor |-> n0.requiresAnchor,
        prescriptionUnit |-> n0.unit,
        adaptedId |-> ex.adaptedId, adaptedVersion |-> ex.adaptedVersion,
        doseType |-> doseType, isIsometric |-> isIsometric,
        family |-> family, pattern |-> pattern,
        hinge |-> hinge, antiRotation |-> antiRotation, antiExtension |-> antiExtension,
        compressiveLoad |-> compressive, shearLoad |-> shear, lumbarStress |-> lumbar,
        lumbarRisk |-> clamp((lumbar + shear) - (IF isIsometric THEN 1 ELSE 0), 0, 3),
        allowedMaxBand |-> IF Len(ex.allowedMaxBand) > 0 THEN ex.allowedMaxBand[1]
                           ELSE IF hinge \/ family = "posterior" THEN 25 ELSE 35 ]

\* validateExercise: TRUE for { ok: true }
validateExercise(e, c) ==
  ~ \/ (c.fasting /\ e.compressiveLoad > 1)
    \/ (c.runDay /\ e.hinge)
    \/ (c.band > e.allowedMaxBand)

\* the first element of the lowest lumbarRisk: what a stable sort by lumbarRisk puts first
firstLowestRisk(arr) ==
  LET lowest == CHOOSE r \in {arr[i].lumbarRisk : i \in 1..Len(arr)} :
                  \A i \in 1..Len(arr) : r <= arr[i].lumbarRisk
      LowRisk(e) == e.lumbarRisk = lowest
  IN  Head(SelectSeq(arr, LowRisk))

\* adaptNoAnchor(exClassified, allClassified): [ok, exercise]
adaptNoAnchor(ex, allClassified) ==
  LET NoAnchor(e) == ~e.requiresAnchor
      pool == SelectSeq(allClassified, NoAnchor)
      ById(e) == e.id = ex.adaptedId
      found == SelectSeq(allClassified, ById)
      AntiRot(e) == e.family = "core" /\ (e.antiRotation \/ hasAny(e, {"side plank", "bird dog", "dead bug"}))
      PullAlt(e) == e.family = "upper"
                    /\ hasAny(e, {"row", "rematore", "pull-apart", "high row", "rear fly", "face pull"})
      PushAlt(e) == hasAny(e, {"push-up", "floor press", "press", "pike push", "shoulder press"})
      Safe(e) == e.family = ex.family /\ e.lumbarRisk <= 2
      cRot == SelectSeq(pool, AntiRot)
      cPull == SelectSeq(pool, PullAlt)
      cPush == SelectSeq(pool, PushAlt)
      safe == SelectSeq(pool, Safe)
  IN  IF ~ex.requiresAnchor THEN [ok |-> TRUE, exercise |-> ex]
      ELSE IF Len(ex.adaptedVersion) > 0
      THEN [ok |-> TRUE, exercise |-> [classify(ex.adaptedVersion[1]) EXCEPT !.requiresAnchor = FALSE]]
      ELSE IF ex.adaptedId # "" /\ Len(found) > 0 THEN [ok |-> TRUE, exercise |-> found[1]]
      ELSE IF ex.antiRotation /\ Len(cRot) > 0 THEN [ok |-> TRUE, exercise |-> cRot[1]]
      ELSE IF ex.pattern = "pull" /\ Len(cPull) > 0 THEN [ok |-> TRUE, exercise |-> cPull[1]]
      ELSE IF ex.pattern = "push" /\ Len(cPush) > 0 THEN [ok |-> TRUE, exercise |-> cPush[1]]
      ELSE IF Len(safe) > 0 THEN [ok |-> TRUE, exercise |-> firstLowestRisk(safe)]
      ELSE [ok |-> FALSE, exercise |-> Nil]

-----------------------------------------------------------------------------
(* SessionEngine v3.0: seed string, hashStr and the xorshift32 generator.     *)
(* A 32-bit word is the pair <<high 16 bits, low 16 bits>>; a string is the   *)
(* sequence of its characters.                                                 *)

CharCode ==
  [ c \in {"0","1","2","3","4","5","6","7","8","9","-","|",
           "a","c","f","h","n","o","r","s","t","u"} |->
      CASE c = "0" -> 48 [] c = "1" -> 49 [] c = "2" -> 50 [] c = "3" -> 51
        [] c = "4" -> 52 [] c = "5" -> 53 [] c = "6" -> 54 [] c = "7" -> 55
        [] c = "8" -> 56 [] c = "9" -> 57 [] c = "-" -> 45 [] c = "|" -> 124
        [] c = "a" -> 97 [] c = "c" -> 99 [] c = "f" -> 102 [] c = "h" -> 104
        [] c = "n" -> 110 [] c = "o" -> 111 [] c = "r" -> 114 [] c = "s" -> 115
        [] c = "t" -> 116 [] c = "u" -> 117 ]

Digit == <<"0","1","2","3","4","5","6","7","8","9">>

\* String(n) for 0 <= n <= 99
numStr(n) == IF n < 10 THEN <<Digit[n + 1]>> ELSE <<Digit[(n \div 10) + 1], Digit[(n % 10) + 1]>>

\* String(n).padStart(2, "0")
pad2(n) == <<Digit[(n \div 10) + 1], Digit[(n % 10) + 1]>>

\* todayISO() on day d of the month the model runs in
todayISO(d) == <<"2","0","2","6","-","0","3","-">> \o pad2(d)

\* bit p (a power of two) of a XOR b
xorBit(a, b, p) == (((a \div p) + (b \div p)) % 2) * p

\* a XOR b on 16-bit words
xor16(a, b) ==
  xorBit(a, b, 1) + xorBit(a, b, 2) + xorBit(a, b, 4) + xorBit(a, b, 8)
    + xorBit(a, b, 16) + xorBit(a, b, 32) + xorBit(a, b, 64) + xorBit(a, b, 128)
    + xorBit(a, b, 256) + xorBit(a, b, 512) + xorBit(a, b, 1024) + xorBit(a, b, 2048)
    + xorBit(a, b, 4096) + xorBit(a, b, 8192) + xorBit(a, b, 16384) + xorBit(a, b, 32768)

xor32(a, b) == <<xor16(a[1], b[1]), xor16(a[2], b[2])>>

\* Math.imul(h, 16777619): 16777619 = 2^24 + 403
imulPrime(h) ==
  LET low == h[2] * 403
  IN  << (h[1] * 403 + (low \div 65536) + (h[2] % 256) * 256) % 65536, low % 65536 >>

FNV_OFFSET == <<33052, 40389>>

RECURSIVE hashFrom(_, _, _)
hashFrom(h, str, i) ==
  IF i > Len(str) THEN h
  ELSE CHOOSE r \in { hashFrom(h2, str, i + 1) :
                       h2 \in { imulPrime(<<h[1], xor16(h[2], CharCode[str[i]])>>) } } : TRUE

\* hashStr(str), before the hexadecimal formatting that parseInt undoes
hashStr(str) == hashFrom(FNV_OFFSET, str, 1)

shl13(x) == << (x[1] % 8) * 8192 + (x[2] \div 8), (x[2] % 8) * 8192 >>

\* x >> 17 on the signed reading of x
sar17(x) ==
  IF x[1] < 32768 THEN <<0, x[1] \div 2>>
  ELSE <<65535, 32768 + (x[1] \div 2)>>

shl5(x) == << (x[1] % 2048) * 32 + (x[2] \div 2048), (x[2] % 2048) * 32 >>

\* one call of rand(): the next generator state
xorshift(x) ==
  CHOOSE r \in { xor32(b, shl5(b)) :
                 b \in { xor32(a, sar17(a)) :
                 a \in { xor32(x, shl13(x)) } } } : TRUE

\* a generator that is not re-seeded: it carries on from the state the last call left
makeRngShared(seedStr) == rngX

makeRng(seedStr) == xor32(FNV_OFFSET, hashStr(seedStr))

\* Math.floor(rand() * n) for the generator state x that rand() has just produced
randIndex(x, n) == (x[1] * n + ((x[2] * n) \div 65536)) \div 65536

\* pickOne(arr, rand): <<the element picked or Nil, the generator state after>>
pickOne(arr, x) ==
  IF Len(arr) = 0 THEN <<Nil, x>>
  ELSE CHOOSE r \in { <<arr[randIndex(y, Len(arr)) + 1], y>> : y \in { xorshift(x) } } : TRUE

seedStrOf(dayKey, c) ==
  dayKey \o <<"|">> \o numStr(c.minutes) \o <<"|">>
    \o (IF c.runDay THEN <<"r","u","n">> ELSE <<"n","o","r","u","n">>) \o <<"|">>
    \o (IF c.fasting THEN <<"f","a","s","t">> ELSE <<"n","o","f","a","s","t">>) \o <<"|">>
    \o numStr(c.rpe3) \o <<"|">>
    \o (IF c.noAnchors THEN <<"n","o","a","n","c","h","o","r">> ELSE <<"a","n","c","h","o","r">>)

-----------------------------------------------------------------------------
(* StudyEngine: context and targets. Fractions are kept as integers: the      *)
(* volume multiplier in millionths, meta.mult in thousandths. The constant     *)
(* repMenu and bandMenu copies inside the strength targets are left out.      *)

\* flags as the coordinator reads them from the UI
getContextForToday(flags, day) ==
  [ dayKey |-> day,
    minutes |-> IF flags.minutes \in {25, 30, 35} THEN flags.minutes ELSE 25,
    runDay |-> flags.runDay,
    fasting |-> flags.fasting,
    rpe3 |-> clamp(IF flags.rpe3 = 0 THEN MOD ELSE flags.rpe3, 1, 3),
    noAnchors |-> flags.noAnchors ]

\* 0.90 + 0.22 / (1 + exp(-(w - 5.5) / 2)) for w = 0..11, rounded to millionths
sCurveMicro ==
  << 913219, 920977, 932570, 948994, 970581, 996321,
     1023679, 1049419, 1071006, 1087430, 1099023, 1106781 >>

volumeMultiplier(week) == sCurveMicro[clamp(week, 1, 12)]

\* mult *= pct / 100
scaled(m, pct) == (m * pct + 50) \div 100

\* Math.round(setBase * mult)
roundSets(setBase, m) == (setBase * m + 500000) \div 1000000

getRestSeconds(rpe3, deload) ==
  IF deload THEN 25
  ELSE IF rpe3 = EASY THEN 25
  ELSE IF rpe3 = MOD THEN 35
  ELSE 45

\* no deload at the week boundary
weekBoundaryNever(st) == FALSE

\* a week boundary that lasts the whole fourth week
weekBoundaryWholeWeek(st) == st.week % 4 = 0

weekBoundaryDeload(st) == st.week % 4 = 0 /\ st.sessionInWeek = 0

multOf(st, c) ==
  LET m0 == volumeMultiplier(st.week)
      m1 == IF c.minutes <= 25 THEN scaled(m0, 95) ELSE m0
      m2 == IF c.minutes >= 35 THEN scaled(m1, 105) ELSE m1
      m3 == IF c.runDay THEN scaled(m2, 92) ELSE m2
      m4 == IF c.fasting THEN scaled(m3, 88) ELSE m3
      m5 == IF st.deloadArmed \/ weekBoundaryDeload(st) THEN scaled(m4, 70) ELSE m4
  IN  IF c.rpe3 = HARD THEN scaled(m5, 93) ELSE m5

\* the band of the record handed on as stored
menuBandAsStored(band) == band

menuBand(band) == IF \E i \in 1..Len(BAND_MENU) : BAND_MENU[i] = band THEN band ELSE 15

\* posterior sets left as rounded
capPosteriorSetsSkipped(posteriorSets, pullSets) == posteriorSets

\* posteriorSets = Math.min(posteriorSets, Math.max(1, Math.floor(pullSets * 1.2)))
capPosteriorSets(posteriorSets, pullSets) ==
  Min2(posteriorSets, Max2(1, floorTimesCap(pullSets)))

getTargets(st, c) ==
  LET mult == multOf(st, c)
      deload == st.deloadArmed \/ weekBoundaryDeload(st)
      pullSets == clamp(roundSets(st.prog.pull.setBase, mult), 2, 6)
      pushSets == clamp(roundSets(st.prog.push.setBase, mult), 2, 6)
      postSets0 == clamp(roundSets(st.prog.posterior.setBase, mult), 1, 4)
      posteriorSets == capPosteriorSets(postSets0, pullSets)
      coreSets == clamp(roundSets(st.prog.core.setBase, mult), 1, 4)
      baseHold == IF st.prog.core.holdSeconds = 0 THEN 25 ELSE st.prog.core.holdSeconds
      hold == clamp((baseHold * (IF deload THEN 85 ELSE 100) * (IF c.fasting THEN 95 ELSE 100) + 5000)
                      \div 10000, 15, 60)
      rest == getRestSeconds(c.rpe3, deload)
      fam(p, sets) == [ sets |-> sets,
                        reps |-> repAt(clamp(p.repIndex, 0, Len(REP_MENU) - 1)),
                        band |-> menuBand(p.band),
                        rest |-> rest ]
  IN  [ meta |-> [ week |-> st.week, sessionInWeek |-> st.sessionInWeek,
                   deload |-> deload, mult |-> (mult + 500) \div 1000 ],
        warmup |-> [ style |-> "simple", cycles |-> IF c.minutes >= 35 THEN 2 ELSE 1 ],
        mobility |-> [ style |-> "simple", count |-> 2 ],
        strength |-> [ pull |-> fam(st.prog.pull, pullSets),
                       push |-> fam(st.prog.push, pushSets),
                       posterior |-> fam(st.prog.posterior, posteriorSets) ],
        core |-> [ sets |-> coreSets, seconds |-> hold, rest |-> 15 ],
        cooldown |-> [ style |-> "simple", count |-> 1 ] ]

-----------------------------------------------------------------------------
(* SessionEngine v3.0: time model. An item field that the source leaves       *)
(* undefined is << >> (reps, seconds, band) or "" (id).                       *)

defaultSeconds == [down |-> 2, hold |-> 1, up |-> 2]

estimateSetSeconds(reps, tempo) == Max2(0, reps * (tempo.down + tempo.hold + tempo.up))

estimateHoldSeconds(seconds) == Max2(0, seconds)

\* v || 0 on an optional number
orZero(v) == IF Len(v) = 0 THEN 0 ELSE v[1]

estimateExerciseSeconds(item) ==
  LET sets == IF item.sets = 0 THEN 1 ELSE item.sets
      rest == item.restSec
      transition == IF item.transitionSec = 0 THEN 8 ELSE item.transitionSec
      active == IF item.unit = "seconds"
                THEN estimateHoldSeconds(orZero(item.seconds))
                ELSE estimateSetSeconds(orZero(item.reps), defaultSeconds)
  IN  sets * active + Max2(0, sets - 1) * rest + transition

RECURSIVE sumSeconds(_)
sumSeconds(list) ==
  IF Len(list) = 0 THEN 0
  ELSE estimateExerciseSeconds(Head(list)) + sumSeconds(Tail(list))

totalSec(blocks) ==
  sumSeconds(blocks.warmup) + sumSeconds(blocks.mobility) + sumSeconds(blocks.strength)
    + sumSeconds(blocks.coreControl) + sumSeconds(blocks.cooldown)

-----------------------------------------------------------------------------
(* TrainingKnowledge.dosingTemplates, and the four template blocks *)

dosingTemplates ==
  [ warmup |->
      [ examples |-> << [item |-> "Circonduzioni spalle con bastone/elastico", unit |-> "reps", range |-> <<8, 12>>],
                        [item |-> "Cat-cow / mobilita colonna controllata", unit |-> "reps", range |-> <<8, 12>>],
                        [item |-> "Hip hinge patterning", unit |-> "reps", range |-> <<8, 12>>] >> ],
    mobility |->
      [ examples |-> << [item |-> "Psoas stretch in affondo, busto dritto", unit |-> "seconds", range |-> <<20, 40>>],
                        [item |-> "Basculamento bacino + antero/retroversione", unit |-> "reps", range |-> <<8, 12>>] >> ],
    coreControl |->
      [ examples |-> << [item |-> "Plank", unit |-> "seconds", range |-> <<15, 30>>],
                        [item |-> "Side plank", unit |-> "seconds", range |-> <<15, 30>>],
                        [item |-> "Bird dog (controllo)", unit |-> "reps", range |-> <<6, 10>>] >> ],
    breathingCooldown |->
      [ protocol |-> [ unit |-> "seconds", perPhaseRange |-> <<3, 4>>,
                       phases |-> <<"inspira", "trattieni", "espira", "vuoto">> ] ] ]

\* Math.round((range[0] + range[1]) / 2)
midOf(range) == (range[1] + range[2] + 1) \div 2

\* tpl.examples ? tpl.examples : []
examplesOf(tpl) == IF "examples" \in DOMAIN tpl THEN tpl.examples ELSE << >>

firstN(s, n) == SubSeq(s, 1, Min2(n, Len(s)))

exampleItem(kind, e, restSec) ==
  LET mid == midOf(e.range)
  IN  [ kind |-> kind, name |-> e.item, unit |-> e.unit, sets |-> 1,
        reps |-> IF e.unit = "reps" THEN <<mid>> ELSE << >>,
        seconds |-> IF e.unit = "seconds" THEN <<mid>> ELSE << >>,
        restSec |-> restSec, tempo |-> defaultSeconds, transitionSec |-> 6 ]

\* the items of the block; minutesTarget is computed by the source and not used
buildWarmupBlock(targets) ==
  LET tpl == IF "warmup" \in DOMAIN targets THEN targets.warmup ELSE dosingTemplates.warmup
      exs == firstN(examplesOf(tpl), 3)
  IN  [i \in 1..Len(exs) |-> exampleItem("warmup", exs[i], 0)]

buildMobilityBlock(targets) ==
  LET tpl == IF "mobility" \in DOMAIN targets THEN targets.mobility ELSE dosingTemplates.mobility
      exs == firstN(examplesOf(tpl), 2)
  IN  [i \in 1..Len(exs) |-> exampleItem("mobility", exs[i], 0)]

buildCoreControlBlock(targets) ==
  LET tpl == IF "coreControl" \in DOMAIN targets THEN targets.coreControl
             ELSE dosingTemplates.coreControl
      e == IF Len(examplesOf(tpl)) > 0 THEN tpl.examples[1]
           ELSE [item |-> "Plank", unit |-> "seconds", range |-> <<15, 30>>]
  IN  << exampleItem("core_control", e, 10) >>

buildCooldownBlock(targets) ==
  LET tpl == IF "breathingCooldown" \in DOMAIN targets THEN targets.breathingCooldown
             ELSE dosingTemplates.breathingCooldown
      p == IF "protocol" \in DOMAIN tpl THEN tpl.protocol
           ELSE dosingTemplates.breathingCooldown.protocol
      perPhase == midOf(p.perPhaseRange)
      cycleSec == perPhase * Len(p.phases)
  IN  << [ kind |-> "cooldown", name |-> "Respirazione diaframmatica (protocollo)",
           unit |-> "seconds", sets |-> 1, seconds |-> <<cycleSec * 3>>,
           restSec |-> 0, transitionSec |-> 0,
           note |-> <<p.phases, perPhase>> ] >>

-----------------------------------------------------------------------------
(* BiomechanicalEngine v2.1: cues and warnings. A text of TrainingKnowledge   *)
(* is named by its list and position.                                         *)

getCues(e) ==
  firstN( <<"universalCues.1", "universalCues.2", "universalCues.3", "universalCues.4",
            "preSetChecklist.1", "preSetChecklist.2", "preSetChecklist.3", "preSetChecklist.4">>
          \o (IF e.pattern = "hinge" THEN <<"byPattern.hinge.1", "byPattern.hinge.2", "byPattern.hinge.3">>
              ELSE << >>)
          \o (IF e.pattern = "pull" THEN <<"byPattern.rowPull.1", "byPattern.rowPull.2">> ELSE << >>)
          \o (IF e.pattern = "push" THEN <<"byPattern.push.1", "byPattern.push.2">> ELSE << >>)
          \o (IF hasAny(e, {"plank", "side plank"}) THEN <<"byPattern.plank.1">> ELSE << >>),
          10 )

getWarnings(e, c) ==
  firstN( (IF e.isIsometric THEN <<"isometric">> ELSE << >>)
          \o (IF e.hinge THEN <<"hinge">> ELSE << >>)
          \o (IF e.antiExtension THEN <<"antiExtension">> ELSE << >>)
          \o (IF e.antiRotation THEN <<"antiRotation">> ELSE << >>)
          \o (IF e.requiresAnchor THEN <<"requiresAnchor">> ELSE << >>)
          \o <<"cautionPatterns.1", "cautionPatterns.2", "cautionPatterns.3">>
          \o (IF c.runDay /\ e.hinge THEN <<"runDayHinge">> ELSE << >>),
          8 )

-----------------------------------------------------------------------------
(* SessionEngine v3.0: the strength block *)

classifyAll(exerciseDB) == [i \in 1..Len(exerciseDB) |-> classify(exerciseDB[i])]

\* ex.id || ex.name
keyOf(e) == IF e.id # "" THEN e.id ELSE e.name

\* pickOne(a, rand) || pickOne(b, rand): the second pick draws only when a is empty
pickOr(a, b, x) == IF Len(a) > 0 THEN pickOne(a, x) ELSE pickOne(b, x)

\* adapt(ex) of chooseStrengthExercises
adapt(e, candidates, c) ==
  IF e = Nil THEN Nil
  ELSE IF ~c.noAnchors THEN e
  ELSE LET res == adaptNoAnchor(e, candidates)
       IN  IF res.ok THEN res.exercise ELSE e

\* [pull, push, posterior, x]: the three movements (Nil when none) and the generator state after
chooseStrengthExercises(pool, c, x0) ==
  LET candidates == pool
      Upper(e) == (e.pattern = "pull" \/ e.family = "upper") /\ ~e.hinge
      UpperPush(e) == (e.pattern = "push" \/ e.family = "upper") /\ ~e.hinge
      Post(e) == e.family = "posterior" \/ e.hinge
                 \/ hasAny(e, {"glute", "hip", "calf", "tibialis", "hinge", "deadlift", "rdl"})
      RunPost(e) == e.family = "posterior" /\ ~e.hinge /\ e.lumbarRisk <= 2
      RunPostNamed(e) == RunPost(e)
                         /\ hasAny(e, {"calf", "polpacc", "tibialis", "cavigl", "ankle",
                                       "glute bridge", "bridge", "hip"})
      Safe(e) == e.lumbarRisk <= 2
      Posterior(e) == e.family = "posterior"
      postPoolOf ==
        IF c.runDay
        THEN IF Len(SelectSeq(candidates, RunPostNamed)) > 0
             THEN SelectSeq(candidates, RunPostNamed)
             ELSE SelectSeq(candidates, RunPost)
        ELSE IF Len(SelectSeq(SelectSeq(candidates, Post), Safe)) > 0
             THEN SelectSeq(SelectSeq(candidates, Post), Safe)
             ELSE SelectSeq(candidates, Post)
      pullPool == SelectSeq(candidates, Upper)
      pushPool == SelectSeq(candidates, UpperPush)
      \* take(ex) returns null
      isDup(e, used) == e = Nil \/ keyOf(e) \in used
      \* take(ex) || pickOne(from.filter(unused), rand), and the set used after take(ex)
      takeOr(e, used, from, x) ==
        IF isDup(e, used)
        THEN [ ex |-> pickOne(SelectSeq(from, LAMBDA q : keyOf(q) \notin used), x),
               used |-> used ]
        ELSE [ ex |-> <<e, x>>, used |-> used \cup {keyOf(e)} ]
      \* the steps in the order of the code, each on the values the step before left
      pickPull == [ pull |-> pickOr(pullPool, candidates, x0) ]
      pickPush(s) == [ pull |-> s.pull[1],
                       push |-> pickOr(pushPool, candidates, s.pull[2]) ]
      pickPosterior(s) ==
        [ pull |-> s.pull, push |-> s.push[1],
          posterior |-> IF Len(postPoolOf) > 0 THEN pickOne(postPoolOf, s.push[2])
                        ELSE pickOr(SelectSeq(candidates, Posterior), candidates, s.push[2]) ]
      takePull(s) ==
        [ push |-> s.push, posterior |-> s.posterior[1],
          pull |-> takeOr(s.pull, {}, pullPool, s.posterior[2]) ]
      takePush(s) ==
        [ pull |-> s.pull.ex[1], posterior |-> s.posterior,
          push |-> takeOr(s.push, s.pull.used, pushPool, s.pull.ex[2]) ]
      takePosterior(s) ==
        [ pull |-> s.pull, push |-> s.push.ex[1],
          posterior |-> takeOr(s.posterior, s.push.used, postPoolOf, s.push.ex[2]).ex ]
  IN  CHOOSE r \in
        { [ pull |-> adapt(s6.pull, candidates, c),
            push |-> adapt(s6.push, candidates, c),
            posterior |-> adapt(s6.posterior[1], candidates, c),
            x |-> s6.posterior[2] ] :
          s6 \in { takePosterior(s5) :
          s5 \in { takePush(s4) :
          s4 \in { takePull(s3) :
          s3 \in { pickPosterior(s2) :
          s2 \in { pickPush(s1) :
          s1 \in { pickPull } } } } } } } : TRUE

\* the band left as the target gives it
safeBandOfTarget(band, e) == band

\* safeBand = Math.min(t.band, ex.allowedMaxBand || t.band)
safeBand(band, e) == Min2(band, IF e.allowedMaxBand = 0 THEN band ELSE e.allowedMaxBand)

\* pack(ex, t, familyLabel): the plan item of a chosen movement
pack(e, t0, familyLabel, c) ==
  LET ok == validateExercise(e, [fasting |-> c.fasting, runDay |-> c.runDay, band |-> t0.band])
      t == IF ok THEN t0
           ELSE [t0 EXCEPT !.band = safeBand(t0.band, e),
                           !.sets = Max2(1, (IF t0.sets = 0 THEN 2 ELSE t0.sets) - 1)]
      unit == IF e.prescriptionUnit # "" THEN e.prescriptionUnit
              ELSE IF e.doseType = SECONDS THEN "seconds"
              ELSE "reps"
  IN  [ kind |-> "strength", family |-> familyLabel, id |-> e.id, name |-> e.name,
        pattern |-> e.pattern, unit |-> unit, sets |-> t.sets,
        reps |-> IF unit = "reps" THEN <<t.reps>> ELSE << >>,
        seconds |-> IF unit = "seconds" THEN <<25>> ELSE << >>,
        band |-> IF unit = "reps" THEN <<t.band>> ELSE << >>,
        restSec |-> t.rest, tempo |-> defaultSeconds, transitionSec |-> 10,
        cues |-> getCues(e), warnings |-> getWarnings(e, c), noAnchor |-> c.noAnchors ]

\* [items, x]: the strength items and the generator state after the selection
buildStrengthBlock(exAll, targets, c, x0) ==
  LET item(e, t, label) == IF e = Nil THEN << >> ELSE << pack(e, t, label, c) >>
  IN  CHOOSE r \in
        { [ items |-> item(chosen.pull, targets.strength.pull, "pull")
                        \o item(chosen.push, targets.strength.push, "push")
                        \o item(chosen.posterior, targets.strength.posterior, "posterior"),
            x |-> chosen.x ] :
          chosen \in { chooseStrengthExercises(exAll, c, x0) } } : TRUE

-----------------------------------------------------------------------------
(* SessionEngine v3.0: time closure *)

\* strength.find(x => x.family === fam): its position, 0 when there is none
findFamily(strength, fam) ==
  IF \E i \in 1..Len(strength) : strength[i].family = fam
  THEN CHOOSE i \in 1..Len(strength) :
         strength[i].family = fam /\ \A j \in 1..(i - 1) : strength[j].family # fam
  ELSE 0

\* it.sets || 1
setsOr1(it) == IF it.sets = 0 THEN 1 ELSE it.sets

\* addSet(fam, maxSets) would return true
canAddSet(strength, fam, maxSets) ==
  LET i == findFamily(strength, fam)
  IN  i # 0 /\ setsOr1(strength[i]) < maxSets

\* reduceSetsOfFamily(fam) would return true
canReduceSets(strength, fam) ==
  LET i == findFamily(strength, fam)
  IN  i # 0 /\ setsOr1(strength[i]) > 1

changeSets(blocks, fam, d) ==
  LET i == findFamily(blocks.strength, fam)
  IN  [blocks EXCEPT !.strength[i].sets = @ + d]

setsOf(strength, fam) ==
  LET i == findFamily(strength, fam)
  IN  IF i = 0 THEN 0 ELSE strength[i].sets

\* a filling pass that adds to push before pull
fillStepPushFirst(blocks) ==
  IF canAddSet(blocks.strength, "push", 6) THEN << changeSets(blocks, "push", 1) >>
  ELSE IF canAddSet(blocks.strength, "pull", 6) THEN << changeSets(blocks, "pull", 1) >>
  ELSE << >>

\* one pass of the while body of fillStrengthIfTooShort: <<the blocks after it>>,
\* << >> at the break
fillStep(blocks) ==
  IF canAddSet(blocks.strength, "pull", 6) THEN << changeSets(blocks, "pull", 1) >>
  ELSE IF canAddSet(blocks.strength, "push", 6) THEN << changeSets(blocks, "push", 1) >>
  ELSE IF canAddSet(blocks.strength, "posterior",
                    Min2(4, Max2(1, floorTimesCap(setsOf(blocks.strength, "pull")))))
       THEN << changeSets(blocks, "posterior", 1) >>
  ELSE << >>

RECURSIVE fillLoop(_, _, _)
fillLoop(blocks, targetSec, guard) ==
  IF ~(totalSec(blocks) * 100 < targetSec * 92) \/ guard <= 0 THEN blocks
  ELSE CHOOSE r \in { IF Len(n) = 0 THEN blocks ELSE fillLoop(n[1], targetSec, guard - 1) :
                      n \in { fillStep(blocks) } } : TRUE

fillStrengthIfTooShort(blocks, targetMinutes) == fillLoop(blocks, targetMinutes * 60, 40)

\* strength.find(x => (x.restSec || 0) > 20): its position, 0 when there is none
findLongRest(strength) ==
  IF \E i \in 1..Len(strength) : strength[i].restSec > 20
  THEN CHOOSE i \in 1..Len(strength) :
         strength[i].restSec > 20 /\ \A j \in 1..(i - 1) : strength[j].restSec <= 20
  ELSE 0

\* a trimming pass that takes sets from pull before the other families
closeStepPullFirst(blocks) ==
  IF canReduceSets(blocks.strength, "pull") THEN << changeSets(blocks, "pull", -1) >>
  ELSE IF canReduceSets(blocks.strength, "push") THEN << changeSets(blocks, "push", -1) >>
  ELSE IF canReduceSets(blocks.strength, "posterior") THEN << changeSets(blocks, "posterior", -1) >>
  ELSE << >>

\* a trimming pass that shortens a rest before it takes any set
closeStepRestFirst(blocks) ==
  IF findLongRest(blocks.strength) # 0
  THEN << [blocks EXCEPT !.strength[findLongRest(blocks.strength)].restSec = Max2(20, @ - 5)] >>
  ELSE IF canReduceSets(blocks.strength, "posterior") THEN << changeSets(blocks, "posterior", -1) >>
  ELSE << >>

\* a trimming pass that changes nothing and never breaks
closeStepIdle(blocks) == << blocks >>

\* one pass of the while body of closeToMinutes: <<the blocks after it>>, << >> at the break
closeStep(blocks) ==
  IF canReduceSets(blocks.strength, "posterior") THEN << changeSets(blocks, "posterior", -1) >>
  ELSE IF canReduceSets(blocks.strength, "push") THEN << changeSets(blocks, "push", -1) >>
  ELSE IF canReduceSets(blocks.strength, "pull") THEN << changeSets(blocks, "pull", -1) >>
  ELSE IF Len(blocks.warmup) > 1
       THEN << [blocks EXCEPT !.warmup = SubSeq(@, 1, Len(@) - 1)] >>
  ELSE IF Len(blocks.mobility) > 1
       THEN << [blocks EXCEPT !.mobility = SubSeq(@, 1, Len(@) - 1)] >>
  ELSE IF findLongRest(blocks.strength) # 0
       THEN << [blocks EXCEPT !.strength[findLongRest(blocks.strength)].restSec =
                                 Max2(20, @ - 5)] >>
  ELSE << >>

RECURSIVE closeLoop(_, _, _)
closeLoop(blocks, targetSec, guard) ==
  IF ~(totalSec(blocks) > targetSec) \/ guard <= 0 THEN blocks
  ELSE CHOOSE r \in { IF Len(n) = 0 THEN blocks ELSE closeLoop(n[1], targetSec, guard - 1) :
                      n \in { closeStep(blocks) } } : TRUE

closeToMinutes(blocks, targetMinutes) == closeLoop(blocks, targetMinutes * 60, 50)

-----------------------------------------------------------------------------
(* BiomechanicalEngine v2.1: validateSession. Only items that carry the       *)
(* movement in a field exercise are counted.                                  *)

RECURSIVE setsOfFamily(_, _)
setsOfFamily(items, fam) ==
  IF Len(items) = 0 THEN 0
  ELSE (IF classify(Head(items).exercise).family = fam THEN Head(items).sets ELSE 0)
       + setsOfFamily(Tail(items), fam)

validateSession(blocks) ==
  LET HasExercise(it) == "exercise" \in DOMAIN it
      IsHinge(it) == classify(it.exercise).hinge
      counted == SelectSeq(blocks.strength, HasExercise)
      pullSets == setsOfFamily(counted, "upper")
      posteriorSets == setsOfFamily(counted, "posterior")
      hingeCount == Len(SelectSeq(counted, IsHinge))
  IN  firstN( (IF pullSets > 0 /\ posteriorSets * 10 > pullSets * 12
               THEN <<"posteriorOverload">> ELSE << >>)
              \o (IF hingeCount > 2 THEN <<"tooManyHinge">> ELSE << >>)
              \o <<"stopRules.1", "stopRules.2", "stopRules.3">>,
              10 )

-----------------------------------------------------------------------------
(* SessionEngine v3.0: generateSession *)

\* Number((seconds / 60).toFixed(1)), in tenths of a minute
minutesTenths(seconds) == (seconds + 3) \div 6

\* the session object returned, from the blocks closed in time
sessionOf(p, day) ==
  [ meta |-> [ version |-> "3.0", dayKey |-> day, minutes |-> p.c.minutes,
               runDay |-> p.c.runDay, fasting |-> p.c.fasting, rpe3 |-> p.c.rpe3,
               deload |-> p.targets.meta.deload,
               mult |-> IF p.targets.meta.mult # 0 THEN p.targets.meta.mult ELSE 1000,
               seed |-> p.seedStr,
               sessionWarnings |-> validateSession(p.blocks),
               estimatedSeconds |-> p.est,
               estimatedMinutes |-> minutesTenths(p.est) ],
    targets |-> p.targets,
    blocks |-> p.blocks ]

\* the plan before the time closure: context, targets, seed, generator state
\* after the selection, and the five blocks as built
builtPlan(exerciseDB, userFlags, raw, day) ==
  LET start(c) ==
        [ c |-> c, targets |-> getTargets(loadState(raw), c),
          seedStr |-> seedStrOf(todayISO(day), c),
          rand |-> makeRng(seedStrOf(todayISO(day), c)),
          exAll |-> classifyAll(exerciseDB) ]
      withStrength(p) ==
        [ c |-> p.c, targets |-> p.targets, seedStr |-> p.seedStr,
          strength |-> buildStrengthBlock(p.exAll, p.targets, p.c, p.rand) ]
      withBlocks(p) ==
        [ c |-> p.c, targets |-> p.targets, seedStr |-> p.seedStr, x |-> p.strength.x,
          blocks |-> [ warmup |-> buildWarmupBlock(p.targets),
                       mobility |-> buildMobilityBlock(p.targets),
                       strength |-> p.strength.items,
                       coreControl |-> buildCoreControlBlock(p.targets),
                       cooldown |-> buildCooldownBlock(p.targets) ] ]
  IN  CHOOSE r \in
        { withBlocks(p2) :
          p2 \in { withStrength(p1) :
          p1 \in { start(c) :
          c \in { getContextForToday(userFlags, day) } } } } : TRUE

\* [session, x]: the plan and the generator state the call leaves behind. The
\* steps follow the order of the code, each on the values the step before left.
generateSession(exerciseDB, userFlags, raw, day) ==
  LET filled(p) == [p EXCEPT !.blocks = fillStrengthIfTooShort(@, p.c.minutes)]
      closed(p) == [p EXCEPT !.blocks = closeToMinutes(@, p.c.minutes)]
      timed(p) == [ c |-> p.c, targets |-> p.targets, seedStr |-> p.seedStr, x |-> p.x,
                    blocks |-> p.blocks, est |-> totalSec(p.blocks) ]
  IN  CHOOSE r \in
        { [ session |-> sessionOf(p6, day), x |-> p6.x ] :
          p6 \in { timed(p5) :
          p5 \in { closed(p4) :
          p4 \in { filled(p3) :
          p3 \in { builtPlan(exerciseDB, userFlags, raw, day) } } } } } : TRUE

-----------------------------------------------------------------------------
(* Inputs *)


\* summaries used for the long progression runs
ProgSummaries ==
  { [pull |-> 20, push |-> 20, posterior |-> 20, core |-> 0],
    [pull |-> 0,  push |-> 0,  posterior |-> 0,  core |-> 0],
    [pull |-> 8,  push |-> 8,  posterior |-> 20, core |-> 0],
    [pull |-> 0,  push |-> 0,  posterior |-> 20, core |-> 0] }

\* the flags the planner accepts: every combination of the UI controls
AllFlags ==
  [ minutes : {25, 30, 35}, runDay : BOOLEAN, fasting : BOOLEAN,
    rpe3 : {EASY, MOD, HARD}, noAnchors : BOOLEAN ]

\* the settings of the flag controls in the day-to-day runs
UiFlags ==
  { [minutes |-> 25, runDay |-> FALSE, fasting |-> FALSE, rpe3 |-> MOD, noAnchors |-> TRUE],
    [minutes |-> 30, runDay |-> TRUE, fasting |-> TRUE, rpe3 |-> HARD, noAnchors |-> TRUE] }

\* the catalogs of the day-to-day runs
UiCatalogs ==
  { <<exRow, exPushUp, exBridge, exRdl, exCalf, exPlank>>,
    <<exRdl, exGoodMorning>> }

\* the reps typed in at completion, per family
DoneInputs ==
  { [pull |-> 20, push |-> 20, posterior |-> 20] }

\* progression records handed to StudyEngine.setState: pull and push share one
rec(i, b, n) == [repIndex |-> i, band |-> b, setBase |-> n]

StudyPull ==
  { rec(0, 15, 3), rec(5, 35, 3), rec(6, 25, 4), rec(6, 35, 3), rec(6, 35, 4), rec(6, 35, 5) }

StudyPosterior == { rec(1, 15, 2), rec(6, 35, 3), rec(6, 35, 5) }

\* position in the cycle: <<week, sessionInWeek>>
StudyPositions == { <<1, 0>>, <<4, 0>>, <<5, 2>>, <<8, 1>> }

\* <<hardSessionsInRow, deloadArmed>>
StudyFatigue == { <<0, FALSE>>, <<1, FALSE>>, <<0, TRUE>> }

\* the states handed to StudyEngine.setState: every one has the form
\* applySessionResult leaves, posterior.setBase within floor(pull.setBase * 1.2)
StudyStates ==
  { [ defaultState EXCEPT !.week = w[1], !.sessionInWeek = w[2],
                          !.hardSessionsInRow = h[1], !.deloadArmed = h[2],
                          !.prog.pull = pl, !.prog.push = pl, !.prog.posterior = po ] :
      <<w, h, pl, po>> \in
        { x \in StudyPositions \X StudyFatigue \X StudyPull \X StudyPosterior :
            x[4].setBase <= maxPosteriorOf(x[3]) } }

\* states at the ends of the hold range and of the rep menu, before and after
\* one hard session
HoldStates ==
  { [defaultState EXCEPT !.hardSessionsInRow = n, !.prog.pull.repIndex = 0,
                         !.prog.core.holdSeconds = h] :
      n \in {0, 1}, h \in {15, 17, 60} }

\* the summaries of the single-result runs
StudySummaries ==
  { [pull |-> 20, push |-> 20, posterior |-> 20, core |-> 0],
    [pull |-> 16, push |-> 16, posterior |-> 16, core |-> 0],
    [pull |-> 7,  push |-> 7,  posterior |-> 7,  core |-> 0],
    [pull |-> 0,  push |-> 0,  posterior |-> 0,  core |-> 0],
    [pull |-> 7,  push |-> 20, posterior |-> 20, core |-> 0] }

\* states handed to getTargets as its state argument whose posterior record
\* is above floor(pull.setBase * 1.2)
LooseStates ==
  { [defaultState EXCEPT !.week = w, !.prog.pull.setBase = 2, !.prog.posterior.setBase = n] :
      w \in {1, 12}, n \in {4, 5} }

\* states handed to getTargets whose records lie outside the menus and ranges
\* applySessionResult keeps: no check stands between a state object and getTargets
OffRangeStates ==
  { [defaultState EXCEPT !.week = w,
                         !.prog.pull = rec(9, 40, 9), !.prog.push = rec(-1, 20, 0),
                         !.prog.posterior = rec(7, 35, n),
                         !.prog.core = [setBase |-> n, holdSeconds |-> h]] :
      w \in {0, 40}, n \in {0, 9}, h \in {0, 5, 90} }

\* the flags handed to getContextForToday: supported and unsupported values
flagsOf(m, run, fast, rpe) ==
  [minutes |-> m, runDay |-> run, fasting |-> fast, rpe3 |-> rpe, noAnchors |-> TRUE]

CtxFlags ==
  { flagsOf(25, FALSE, FALSE, MOD), flagsOf(25, TRUE, TRUE, HARD),
    flagsOf(30, FALSE, TRUE, EASY), flagsOf(35, FALSE, FALSE, EASY),
    flagsOf(35, TRUE, FALSE, HARD),
    flagsOf(40, FALSE, FALSE, MOD), flagsOf(30, TRUE, FALSE, 5), flagsOf(20, FALSE, FALSE, 0) }

-----------------------------------------------------------------------------
(* SessionEngine v3.0: persistence *)

\* JSON.stringify of a plan item: a field whose value is undefined is left out
jsonItem(it) ==
  LET kept == { f \in DOMAIN it : ~ \/ (f \in {"reps", "seconds", "band"} /\ it[f] = << >>)
                                    \/ (f = "id" /\ it[f] = "") }
  IN  [f \in kept |-> it[f]]

\* jstring(session)
jstring(session) ==
  [session EXCEPT !.blocks =
     [b \in DOMAIN session.blocks |->
        [i \in 1..Len(session.blocks[b]) |-> jsonItem(session.blocks[b][i])]]]

\* jparse(s, fb) on what jstring wrote
jparse(s) == s

\* localStorage.getItem on the today entries: << >> for null
getItem(store, key) == IF key \in DOMAIN store THEN <<store[key]>> ELSE << >>

setItem(store, key, v) == [k \in DOMAIN store \cup {key} |-> IF k = key THEN v ELSE store[k]]

bit(b) == IF b THEN 1 ELSE 0

\* the fields the key string is built from
todayKeyFromFlags(flags, day) ==
  LET c == getContextForToday(flags, day)
  IN  <<c.dayKey, c.minutes, bit(c.runDay), bit(c.fasting), c.rpe3, bit(c.noAnchors)>>

\* a cache that is never accepted
cacheIgnored(cached, expectedDay) == FALSE

\* cached && cached.meta && cached.meta.dayKey === expectedDay
cacheAccepted(cached, expectedDay) ==
  Len(cached) > 0 /\ cached[1].meta.dayKey = expectedDay

\* a getState that writes back what it loaded
getStateSaving(raw) == [state |-> loadState(raw), stored |-> saveState(loadState(raw))]

\* StudyEngine.getState(): the state it returns and what localStorage holds afterwards
getState(raw) == [state |-> loadState(raw), stored |-> raw]

\* a completion that counts once per day
completedStateOncePerDay(st, r) ==
  IF st.lastCompletedDay = r.dayKey THEN st ELSE applySessionResult(st, r)

\* the state completeWorkout gets back from StudyEngine.applySessionResult
completedState(st, r) == applySessionResult(st, r)

-----------------------------------------------------------------------------
(* State machine *)

Init ==
  /\ lsState = << >>
  /\ lsToday = << >>
  /\ lsHistory = << >>
  /\ lsExport = << >>
  /\ db = << >>
  /\ ui = << >>
  /\ currentSession = << >>
  /\ today = 1
  /\ nApplied = 0
  /\ lastOp = [op |-> "init"]
  /\ ret = << >>
  /\ preClamp = 0
  /\ rngX = FNV_OFFSET
  /\ firstRet = << >>

\* midnight passes
Tick ==
  /\ today < MaxDay
  /\ today' = today + 1
  /\ lastOp' = [op |-> "tick"]
  /\ ret' = << >>
  /\ UNCHANGED <<lsState, lsToday, lsHistory, lsExport, db, ui, currentSession, nApplied,
                 preClamp, rngX, firstRet>>

\* the coordinator loads the movement catalog
LoadDB(catalogs) ==
  /\ db = << >>
  /\ \E cat \in catalogs : db' = <<cat>>
  /\ lastOp' = [op |-> "loadDB"]
  /\ ret' = << >>
  /\ UNCHANGED <<lsState, lsToday, lsHistory, lsExport, ui, currentSession, today, nApplied,
                 preClamp, rngX, firstRet>>

\* the user sets the flag controls of the page
SetFlags(f) ==
  /\ ui = << >>
  /\ ui' = <<f>>
  /\ lastOp' = [op |-> "setFlags"]
  /\ ret' = << >>
  /\ UNCHANGED <<lsState, lsToday, lsHistory, lsExport, db, currentSession, today, nApplied,
                 preClamp, rngX, firstRet>>

\* StudyEngine.applySessionResult(s, r), which saves the new state
ApplyResult(s, r) ==
  \E new \in {applySessionResult(s, r)} :
    /\ lsState' = saveState(new)
    /\ preClamp' = advancedProg(s, r).posterior.setBase
    /\ nApplied' = nApplied + 1
    /\ ret' = <<new>>

ProgApply ==
  /\ nApplied < MaxProgSessions
  /\ \E s \in {loadState(lsState)}, rpe3 \in {EASY, MOD, HARD}, sm \in ProgSummaries :
       /\ ApplyResult(s, [dayKey |-> today, rpe3 |-> rpe3, summary |-> sm])
       /\ lastOp' = [op |-> "applySessionResult", rpe3 |-> rpe3]
  /\ UNCHANGED <<lsToday, lsHistory, lsExport, db, ui, currentSession, today, rngX, firstRet>>

\* StudyEngine.getTargets(undefined, StudyEngine.getContextForToday(f))
GetTargets(f) ==
  \E got \in {getState(lsState)} :
      /\ lsState' = got.stored
      /\ ret' = <<getTargets(got.state, getContextForToday(f, today))>>
      /\ lastOp' = [op |-> "getTargets", flags |-> f]
      /\ UNCHANGED <<lsToday, lsHistory, lsExport, db, ui, currentSession, today, nApplied,
                     preClamp, rngX, firstRet>>

\* SessionEngine.generateSession(exerciseDB, f)
GenerateSession(f) ==
  /\ Len(db) > 0
  /\ \E got \in {getState(lsState)}, g \in {generateSession(db[1], f, lsState, today)} :
         /\ lsState' = got.stored
         /\ ret' = <<g.session>>
         /\ rngX' = g.x
         /\ lastOp' = [ op |-> "generateSession", flags |-> f,
                        again |-> lastOp.op = "generateSession" /\ lastOp.flags = f ]
  /\ UNCHANGED <<lsToday, lsHistory, lsExport, db, ui, currentSession, today, nApplied,
                 preClamp, firstRet>>

\* getOrCreateTodaySession returns out, found in the cache or not
TodayReturns(f, key, out, hit) ==
  /\ ret' = <<out>>
  /\ currentSession' = <<out>>
  /\ firstRet' = IF key \in DOMAIN firstRet THEN firstRet
                 ELSE setItem(firstRet, key, jstring(out))
  /\ lastOp' = [op |-> "getOrCreateTodaySession", flags |-> f, cached |-> hit]

\* the coordinator's generateToday(): SessionEngine.getOrCreateTodaySession(exerciseDB, flags)
GetOrCreateTodaySession(f) ==
  /\ Len(db) > 0
  /\ \E key \in {todayKeyFromFlags(f, today)} :
       \E cached \in {getItem(lsToday, key)} :
         IF cacheAccepted(cached, getContextForToday(f, today).dayKey)
         THEN /\ \E out \in {jparse(cached[1])} : TodayReturns(f, key, out, TRUE)
              /\ UNCHANGED <<lsState, lsToday, rngX>>
         ELSE \E g \in {generateSession(db[1], f, lsState, today)} :
                /\ lsState' = getState(lsState).stored
                /\ lsToday' = setItem(lsToday, key, jstring(g.session))
                /\ rngX' = g.x
                /\ TodayReturns(f, key, g.session, FALSE)
  /\ UNCHANGED <<lsHistory, lsExport, db, ui, today, nApplied, preClamp>>

\* the reps the page reports: those typed in, 0 for a family the plan has no item of
repsDoneOf(session, done) ==
  LET has(fam) == findFamily(session.blocks.strength, fam) # 0
  IN  [ pull |-> IF has("pull") THEN done.pull ELSE 0,
        push |-> IF has("push") THEN done.push ELSE 0,
        posterior |-> IF has("posterior") THEN done.posterior ELSE 0 ]

\* the coordinator's completeWorkout(): SessionEngine.completeWorkout(currentSession, payload)
\* a history that keeps the last record only
historyOfLast(hist, r) == << r >>

\* hist = jparse(getItem(LS_HISTORY_KEY), []); hist.push(r); setItem(jstring(hist))
historyWith(hist, r) == Append(hist, r)

CompleteWorkout(done) ==
  /\ Len(currentSession) > 0
  /\ nApplied < MaxCompletions
  /\ \E session \in {currentSession[1]}, st \in {getState(lsState).state} :
       \E repsDone \in {repsDoneOf(session, done)} :
         \E summary \in {[ pull |-> repsDone.pull, push |-> repsDone.push,
                            posterior |-> repsDone.posterior, core |-> 0 ]} :
           \E newState \in {completedState(st, [ dayKey |-> session.meta.dayKey,
                                                   rpe3 |-> session.meta.rpe3,
                                                   summary |-> summary ])} :
             /\ lsState' = saveState(newState)
             /\ preClamp' = advancedProg(st, [ dayKey |-> session.meta.dayKey,
                                               rpe3 |-> session.meta.rpe3,
                                               summary |-> summary ]).posterior.setBase
             /\ nApplied' = nApplied + 1
             /\ ret' = <<newState>>
             /\ lsHistory' = historyWith(lsHistory, [ completedAt |-> today, meta |-> session.meta,
                                                      summary |-> summary, notes |-> "",
                                                      stateAfter |-> newState ])
             /\ lsExport' = << [ exportedAt |-> today, session |-> jstring(session),
                                 result |-> [summary |-> summary, notes |-> ""],
                                 studyState |-> newState ] >>
             /\ lastOp' = [ op |-> "completeWorkout", done |-> repsDone,
                            repeat |-> lastOp.op = "completeWorkout" /\ lastOp.done = repsDone ]
  /\ UNCHANGED <<lsToday, db, ui, currentSession, today, rngX, firstRet>>

\* the progression alone: results applied directly through StudyEngine
NextProg == Tick \/ ProgApply

SpecProg == Init /\ [][NextProg]_vars

\* days that pass before the planner is called
TickIdle == lastOp.op \in {"init", "loadDB", "tick"} /\ Tick

\* a planner call, and the same call made once more
PlanOnce(f) == lastOp.op # "generateSession" /\ GenerateSession(f)

PlanAgain ==
  /\ lastOp.op = "generateSession"
  /\ ~lastOp.again
  /\ GenerateSession(lastOp.flags)

\* the planner over every catalog and flag combination, on a new installation
NextPlan ==
  \/ TickIdle
  \/ LoadDB(Catalogs)
  \/ \E f \in AllFlags : PlanOnce(f)
  \/ PlanAgain

SpecPlan == Init /\ [][NextPlan]_vars

\* the calls the page makes with the flags of its controls
UiGetTargets == Len(ui) > 0 /\ GetTargets(ui[1])

UiGenerateSession == Len(ui) > 0 /\ GenerateSession(ui[1])

UiGenerateToday == Len(ui) > 0 /\ GetOrCreateTodaySession(ui[1])

\* the application day to day
Next ==
  \/ Tick
  \/ LoadDB(UiCatalogs)
  \/ \E f \in UiFlags : SetFlags(f)
  \/ UiGetTargets
  \/ UiGenerateSession
  \/ UiGenerateToday
  \/ \E done \in DoneInputs : CompleteWorkout(done)

Spec == Init /\ [][Next]_vars

\* StudyEngine.setState(st)
SetState(st) ==
  /\ lastOp.op = "init"
  /\ lsState' = saveState(st)
  /\ ret' = <<st>>
  /\ lastOp' = [op |-> "setState"]
  /\ UNCHANGED <<lsToday, lsHistory, lsExport, db, ui, currentSession, today, nApplied,
                 preClamp, rngX, firstRet>>

\* one session result applied to the stored state
StudyApply ==
  /\ nApplied = 0
  /\ \E s \in {loadState(lsState)}, rpe3 \in {EASY, MOD, HARD}, sm \in StudySummaries :
       /\ ApplyResult(s, [dayKey |-> today, rpe3 |-> rpe3, summary |-> sm])
       /\ lastOp' = [op |-> "applySessionResult", rpe3 |-> rpe3, summary |-> sm, state |-> s]
  /\ UNCHANGED <<lsToday, lsHistory, lsExport, db, ui, currentSession, today, rngX, firstRet>>

\* the planner on progressed states: records at the top of the rep menu
PlanStates ==
  { st \in StudyStates : /\ st.week = 1 /\ st.hardSessionsInRow = 0 /\ ~st.deloadArmed
                         /\ st.prog.pull.repIndex = Len(REP_MENU) - 1 /\ st.prog.pull.band = 35 }

NextPlanStates ==
  \/ \E st \in PlanStates : SetState(st)
  \/ LoadDB(Catalogs)
  \/ \E f \in AllFlags : PlanOnce(f)

SpecPlanStates == Init /\ [][NextPlanStates]_vars

\* StudyEngine.getTargets(st, StudyEngine.getContextForToday(f))
GetTargetsOf(st, f) ==
  /\ lastOp.op = "init"
  /\ ret' = <<getTargets(st, getContextForToday(f, today))>>
  /\ lastOp' = [op |-> "getTargetsOf", flags |-> f, state |-> st]
  /\ UNCHANGED <<lsState, lsToday, lsHistory, lsExport, db, ui, currentSession, today, nApplied,
                 preClamp, rngX, firstRet>>

\* StudyEngine alone: a state set, one result applied, targets read
NextStudy ==
  \/ \E st \in StudyStates \cup HoldStates : SetState(st)
  \/ StudyApply
  \/ \E f \in CtxFlags : GetTargets(f)
  \/ \E st \in LooseStates \cup OffRangeStates, f \in CtxFlags : GetTargetsOf(st, f)

SpecStudy == Init /\ [][NextStudy]_vars

-----------------------------------------------------------------------------
(* Claims *)

stored == loadState(lsState)

\* C1: after every applySessionResult call, whatever the sequence of results,
\* posterior.setBase <= floor(pull.setBase * 1.2).
C1_PosteriorCapAfterApply ==
  nApplied > 0 =>
    10 * stored.prog.posterior.setBase <= 12 * stored.prog.pull.setBase
    /\ stored.prog.posterior.setBase <= (12 * stored.prog.pull.setBase) \div 10

\* C1 witness: a call in which the posterior progression had grown past the cap
\* and was brought back by the constraint.
C1_Witness ==
  /\ nApplied > 0
  /\ preClamp > (12 * stored.prog.pull.setBase) \div 10
  /\ stored.prog.posterior.setBase < preClamp

\* C2: after two consecutive hard results the saved state has deloadArmed = TRUE
\* (so that the next getTargets call reports a deload).
C2_ArmedAfterTwoHard ==
  (nApplied > 0 /\ stored.hardSessionsInRow >= 2) => stored.deloadArmed

\* C3: sessionInWeek stays in 0..2, every applySessionResult call advances it by
\* one modulo 3, and week grows by exactly one in exactly the calls that wrap it to 0.
C3_WeekAdvancement ==
  /\ [](stored.sessionInWeek \in 0..2)
  /\ [](stored.sessionInWeek = nApplied % 3 /\ stored.week = 1 + nApplied \div 3)
  /\ [][nApplied' # nApplied =>
          LET a == loadState(lsState)
              b == loadState(lsState')
          IN  /\ b.sessionInWeek = (a.sessionInWeek + 1) % 3
              /\ b.week = a.week + (IF b.sessionInWeek = 0 THEN 1 ELSE 0)]_vars

\* C3 witness: the third call since sessionInWeek was 0 has wrapped it and advanced the week.
C3_Witness ==
  /\ lastOp.op = "applySessionResult"
  /\ nApplied = 6
  /\ stored.sessionInWeek = 0
  /\ stored.week = 3

\* the classified movement a strength item was packed from, found by its name
Movements ==
  { exRow, exPushUp, exBridge, exRdl, exCalf, exPlank, exGoodMorning, exSquat, exPressHold,
    exDoorRow, exPullApart, exPullThrough, exLatPull, exDoorPress }

movementOf(it) == classify(CHOOSE e \in Movements : e.name = it.name)

\* the call that has just returned is generateSession
planned == lastOp.op = "generateSession"

C5_TimeClosure ==
  planned =>
    LET m == ret[1].meta
    IN  /\ m.estimatedSeconds <= m.minutes * 60
        /\ \/ m.estimatedSeconds * 100 >= m.minutes * 60 * 92
           \/ "delta" \in DOMAIN m

\* C6: a plan generated with runDay = TRUE has no hinge movement in its strength block.
C6_NoHingeOnRunDay ==
  (planned /\ lastOp.flags.runDay) =>
    \A i \in 1..Len(ret[1].blocks.strength) : ~movementOf(ret[1].blocks.strength[i]).hinge

\* C7: a plan generated with fasting = TRUE has no strength item whose movement
\* is classified with compressiveLoad > 1.
C7_NoCompressiveWhenFasting ==
  (planned /\ lastOp.flags.fasting) =>
    \A i \in 1..Len(ret[1].blocks.strength) :
      movementOf(ret[1].blocks.strength[i]).compressiveLoad <= 1

C9_OnlyCompletionMutates ==
  [][ /\ lastOp'.op \in {"getTargets", "generateSession", "getOrCreateTodaySession"}
           => lsState' = lsState
      /\ lsState' # lsState => lastOp'.op = "completeWorkout" ]_vars

\* C9 witness: a plan generated anew, through getOrCreateTodaySession, on a
\* progression state that a completion has stored.
C9_Witness ==
  /\ lastOp.op = "getOrCreateTodaySession"
  /\ ~lastOp.cached
  /\ nApplied > 0
  /\ lsState # << >>

\* C10: every getOrCreateTodaySession call returns, for its day and flags, a plan
\* with the same JSON structure as the first plan returned for that day and flags.
C10_SameDayReopen ==
  lastOp.op = "getOrCreateTodaySession" =>
    jstring(ret[1]) = firstRet[todayKeyFromFlags(lastOp.flags, today)]

\* C10 witness: the plan of the day reopened after a completion, where a plan
\* generated anew from the stored progression would differ.
C10_Witness ==
  /\ lastOp.op = "getOrCreateTodaySession"
  /\ lastOp.cached
  /\ nApplied > 0
  /\ jstring(ret[1]) # jstring(generateSession(db[1], lastOp.flags, lsState, today).session)

\* the flags getContextForToday supports: a duration of 25, 30 or 35 minutes
\* and an effort level of 1..3
supportedFlags(f) == f.minutes \in {25, 30, 35} /\ f.rpe3 \in EASY..HARD

\* what a call returns when it ends in the invalid-context error
InvalidContext == <<[error |-> "InvalidContext"]>>

\* C11: a getTargets request whose duration is not 25, 30 or 35, or whose
\* effort level is outside 1..3, ends in the invalid-context error and never
\* in targets computed from a substituted value.
C11_InvalidContextRejected ==
  (lastOp.op = "getTargets" /\ ~supportedFlags(lastOp.flags)) => ret = InvalidContext

\* the targets a getTargets call has just returned, and its context
targetsRead == lastOp.op = "getTargets"

ctxRead == getContextForToday(lastOp.flags, today)

\* the stored state one session later in the same week, deload not armed
offBoundary(st) == [st EXCEPT !.sessionInWeek = 1, !.deloadArmed = FALSE]

\* C12: in a stored state whose week is a multiple of 4 and whose
\* sessionInWeek is 0, getTargets reports deload = true and its multiplier is
\* 0.70 times the multiplier of the same week off the boundary (to the
\* rounding of meta.mult), also when deloadArmed is false; when deloadArmed is
\* false and the state is not on such a boundary, it reports deload = false.
C12_WeekBoundaryDeload ==
  targetsRead =>
    /\ (stored.week % 4 = 0 /\ stored.sessionInWeek = 0) =>
         /\ ret[1].meta.deload
         /\ ret[1].meta.mult * 100
              - getTargets(offBoundary(stored), ctxRead).meta.mult * 70 \in -100..100
    /\ (~stored.deloadArmed /\ ~(stored.week % 4 = 0 /\ stored.sessionInWeek = 0)) =>
         ~ret[1].meta.deload

C12_Witness ==
  /\ targetsRead
  /\ stored.week % 4 = 0 /\ stored.sessionInWeek = 0 /\ ~stored.deloadArmed
  /\ ret[1].meta.deload
  /\ ret[1].meta.mult < getTargets(offBoundary(stored), ctxRead).meta.mult

\* an applySessionResult call has just returned: lastOp holds the state it
\* started from, the effort level and the summary of the result
applied == lastOp.op = "applySessionResult"

RepFamilies == {"pull", "push", "posterior"}

\* a family's record before the call and in the saved state after it
before(f) == lastOp.state.prog[f]

after(f) == stored.prog[f]

\* st.deloadArmed is true when the families are processed: it was stored so,
\* or this result is the second hard one in a row
deloadSession ==
  lastOp.state.deloadArmed \/ (lastOp.rpe3 = HARD /\ lastOp.state.hardSessionsInRow >= 1)

\* target = REP_MENU[repIndex] and the success test of the result
targetOf(f) == REP_MENU[before(f).repIndex + 1]

succeeded(f) == lastOp.summary[f] >= targetOf(f) /\ lastOp.rpe3 # HARD

atTop(f) == before(f).repIndex = Len(REP_MENU) - 1

\* C13: a successful result outside deload on a rep family at the top of the
\* rep menu with band 35 leaves repIndex and band and adds exactly one to
\* setBase, up to 5; the posterior record is in the same call brought down to
\* floor(pull.setBase * 1.2) when it exceeds it. Three successes in a row from
\* setBase 3, band 35, one below the top give setBase 3, 4, 5.
C13_SetBaseGrowthAtTop ==
  applied =>
    /\ LET one   == advanceFamily(rec(Len(REP_MENU) - 2, 35, 3), 20, MOD, FALSE)
           two   == advanceFamily(one, 20, MOD, FALSE)
           three == advanceFamily(two, 20, MOD, FALSE)
       IN  <<one.setBase, two.setBase, three.setBase>> = <<3, 4, 5>>
    /\ \A f \in RepFamilies :
         (~deloadSession /\ succeeded(f) /\ atTop(f) /\ before(f).band = 35) =>
           /\ after(f).repIndex = before(f).repIndex
           /\ after(f).band = 35
           /\ after(f).setBase =
                IF f = "posterior"
                THEN Min2(Min2(before(f).setBase + 1, 5), (after("pull").setBase * 12) \div 10)
                ELSE Min2(before(f).setBase + 1, 5)

C13_Witness ==
  /\ applied /\ ~deloadSession
  /\ succeeded("push") /\ atTop("push") /\ before("push").band = 35
  /\ before("push").setBase = 3 /\ after("push").setBase = 4
  /\ succeeded("posterior") /\ atTop("posterior") /\ before("posterior").band = 35
  /\ before("posterior").setBase + 1 > (after("pull").setBase * 12) \div 10
  /\ after("posterior").setBase = before("posterior").setBase

\* C14: the targets getTargets returns, for the stored state or for a state
\* handed to it, have strength.posterior.sets <= floor(strength.pull.sets * 1.2).
C14_TargetsPosteriorCap ==
  lastOp.op \in {"getTargets", "getTargetsOf"} =>
    ret[1].strength.posterior.sets * 10 <= ret[1].strength.pull.sets * 12

\* the rounded posterior sets of the state were above the cap of its pull sets
C14_Witness ==
  /\ lastOp.op = "getTargetsOf"
  /\ clamp(roundSets(lastOp.state.prog.posterior.setBase,
                     multOf(lastOp.state, getContextForToday(lastOp.flags, today))), 1, 4)
       > (ret[1].strength.pull.sets * 12) \div 10
  /\ ret[1].strength.posterior.sets = (ret[1].strength.pull.sets * 12) \div 10

\* C15: after a state s has been saved (by setState or by applySessionResult),
\* the state loadState returns gives, under every context, the same targets
\* as s itself.
C15_RoundTripTargets ==
  lastOp.op \in {"setState", "applySessionResult"} =>
    \A f \in CtxFlags :
      getTargets(loadState(lsState), getContextForToday(f, today))
        = getTargets(ret[1], getContextForToday(f, today))

\* a saved state that differs from the default in its week, its fatigue
\* counter and its records
C15_Witness ==
  /\ applied
  /\ lsState = saveState(ret[1])
  /\ ret[1].week = 6 /\ ret[1].hardSessionsInRow = 1
  /\ ret[1].prog.pull.setBase = 5
  /\ getTargets(loadState(lsState), getContextForToday(flagsOf(35, FALSE, FALSE, EASY), today))
       # getTargets(defaultState, getContextForToday(flagsOf(35, FALSE, FALSE, EASY), today))

C17_NoAnchorItems ==
  (planned /\ lastOp.flags.noAnchors) =>
    \A i \in 1..Len(ret[1].blocks.strength) :
      ~movementOf(ret[1].blocks.strength[i]).requiresAnchor

C18_DeloadSessionRule ==
  (applied /\ deloadSession) =>
    \A f \in RepFamilies :
      /\ after(f).repIndex = Max2(before(f).repIndex - 1, 0)
      /\ after(f).band = before(f).band
      /\ after(f).setBase = before(f).setBase

\* an armed state, a result that is not hard with 20 reps everywhere: pull at
\* repIndex 0 stays there, posterior goes from 1 to 0
C18_Witness ==
  /\ applied /\ deloadSession
  /\ lastOp.rpe3 = MOD
  /\ \A f \in RepFamilies : lastOp.summary[f] = 20
  /\ before("pull").repIndex = 0 /\ after("pull").repIndex = 0
  /\ before("posterior").repIndex = 1 /\ after("posterior").repIndex = 0

\* the index of the middle entry of the rep menu
middleOfMenu == (Len(REP_MENU) - 1) \div 2

\* a successful result outside deload on a family at the top of the rep menu
\* whose band is 15 or 25
promoted(f) == ~deloadSession /\ succeeded(f) /\ atTop(f) /\ before(f).band \in {15, 25}

\* C19: a successful result outside deload on a rep family at the top of the
\* rep menu whose band is not 35 moves the band to the next of 15, 25, 35,
\* resets repIndex to the middle of the rep menu and leaves setBase.
C19_BandPromotionToMiddle ==
  applied =>
    \A f \in RepFamilies :
      promoted(f) =>
        /\ after(f).band = IF before(f).band = 15 THEN 25 ELSE 35
        /\ after(f).repIndex = middleOfMenu
        /\ after(f).setBase = before(f).setBase

\* C19, amended: the same result moves the band to the next of 15, 25, 35,
\* resets repIndex to 2 (12 reps, the entry below the middle one) and leaves
\* setBase.
C19_BandPromotion ==
  applied =>
    \A f \in RepFamilies :
      promoted(f) =>
        /\ after(f).band = IF before(f).band = 15 THEN 25 ELSE 35
        /\ after(f).repIndex = 2 /\ REP_MENU[after(f).repIndex + 1] = 12
        /\ after(f).setBase = before(f).setBase

C19_Witness ==
  /\ applied /\ promoted("pull")
  /\ before("pull") = rec(6, 25, 4)
  /\ after("pull") = rec(2, 35, 4)

\* the result of a family is below max(6, target - 4), or the effort is hard
failedResult(f) ==
  lastOp.summary[f] < Max2(6, targetOf(f) - 4) \/ lastOp.rpe3 = HARD

\* C20: outside deload, a result below max(6, target - 4) or with hard effort
\* lowers the family's repIndex by one, not below 0, and leaves band and
\* setBase; a result that is not hard with max(6, target - 4) <= reps < target
\* leaves the family's record as it was; the success test and the failure
\* test of a result are never both true.
C20_FailureAndAmbiguous ==
  applied =>
    \A f \in RepFamilies :
      /\ (~deloadSession /\ failedResult(f)) =>
           /\ after(f).repIndex = Max2(before(f).repIndex - 1, 0)
           /\ after(f).band = before(f).band
           /\ after(f).setBase = before(f).setBase
      /\ (~deloadSession /\ ~failedResult(f) /\ lastOp.summary[f] < targetOf(f)) =>
           after(f) = before(f)
      /\ ~(succeeded(f) /\ failed(lastOp.summary[f], targetOf(f), lastOp.rpe3))

\* 7 reps everywhere, effort not hard: pull at target 20 fails and steps down,
\* posterior at target 10 is in the ambiguous band and stays
C20_Witness ==
  /\ applied /\ ~deloadSession /\ lastOp.rpe3 = EASY
  /\ \A f \in RepFamilies : lastOp.summary[f] = 7
  /\ before("pull").repIndex = 6 /\ after("pull").repIndex = 5
  /\ before("posterior").repIndex = 1 /\ after("posterior") = before("posterior")

-----------------------------------------------------------------------------
(* BiomechanicalEngine v2.1 called directly: classify, validateExercise and   *)
(* adaptExerciseNoAnchor on movements and contexts of the caller's choice,     *)
(* and the sizing step of the session engine that calls validateExercise.      *)

\* a movement the catalog marks as plyometric through movement_pattern
exJumpSquat ==
    [ id |-> "jumpsquat", name |-> "Jump squat",
      kw |-> {"squat"},
      tags |-> {}, family |-> "", movement_pattern |-> "plyometric",
      requiresAnchor |-> << >>, hinge |-> FALSE, antiRotation |-> FALSE, antiExtension |-> FALSE,
      allowedMaxBand |-> << >>, adaptedId |-> "", adaptedVersion |-> << >> ]

\* an anchored movement whose adaptedId names another anchored movement
exCableRow ==
    [ id |-> "cablerow", name |-> "Cable row",
      kw |-> {"row"},
      tags |-> {}, family |-> "", movement_pattern |-> "",
      requiresAnchor |-> <<TRUE>>, hinge |-> FALSE, antiRotation |-> FALSE, antiExtension |-> FALSE,
      allowedMaxBand |-> << >>, adaptedId |-> "doorrow", adaptedVersion |-> << >> ]

BiomechMovements ==
  { exRow, exPushUp, exBridge, exRdl, exCalf, exPlank, exGoodMorning, exSquat, exPressHold,
    exDoorRow, exPullApart, exPullThrough, exLatPull, exDoorPress, exJumpSquat, exCableRow }

\* the contexts validateExercise is called with: { ...ctx, band }
ValidationContexts ==
  [ runDay : BOOLEAN, fasting : BOOLEAN, deload : BOOLEAN, band : {15, 25, 35} ]

\* the catalogs adaptExerciseNoAnchor is called with
AdaptCatalogs == Catalogs \cup { <<exCableRow, exDoorRow, exRow>>, <<exLatPull, exDoorPress>> }

Classify(ex) ==
  /\ lastOp.op = "init"
  /\ ret' = <<classify(ex)>>
  /\ lastOp' = [op |-> "classify", exercise |-> ex]
  /\ UNCHANGED <<lsState, lsToday, lsHistory, lsExport, db, ui, currentSession, today, nApplied,
                 preClamp, rngX, firstRet>>

ValidateExercise(ex, c) ==
  /\ lastOp.op = "init"
  /\ \E e \in { classify(ex) } :
       /\ ret' = <<validateExercise(e, c)>>
       /\ lastOp' = [op |-> "validateExercise", exercise |-> e, ctx |-> c]
  /\ UNCHANGED <<lsState, lsToday, lsHistory, lsExport, db, ui, currentSession, today, nApplied,
                 preClamp, rngX, firstRet>>

AdaptExerciseNoAnchor(ex, cat) ==
  /\ lastOp.op = "init"
  /\ \E e \in { classify(ex) }, all \in { classifyAll(cat) } :
       /\ ret' = <<adaptNoAnchor(e, all)>>
       /\ lastOp' = [op |-> "adaptExerciseNoAnchor", exercise |-> e, all |-> all]
  /\ UNCHANGED <<lsState, lsToday, lsHistory, lsExport, db, ui, currentSession, today, nApplied,
                 preClamp, rngX, firstRet>>

\* the targets and contexts the sizing step pack(ex, t, familyLabel) is given
SizingTargets == [ sets : {1, 2, 4}, reps : {12}, band : {15, 25, 35}, rest : {45} ]

SizingFlags == { f \in AllFlags : f.minutes = 25 /\ f.rpe3 = MOD }

\* pack(ex, t, familyLabel) of buildStrengthBlock on a classified movement
Pack(ex, t, familyLabel, f) ==
  /\ lastOp.op = "init"
  /\ \E e \in { classify(ex) }, c \in { getContextForToday(f, today) } :
       /\ ret' = <<pack(e, t, familyLabel, c)>>
       /\ lastOp' = [op |-> "pack", exercise |-> e, target |-> t, ctx |-> c]
  /\ UNCHANGED <<lsState, lsToday, lsHistory, lsExport, db, ui, currentSession, today, nApplied,
                 preClamp, rngX, firstRet>>

NextBiomech ==
  \/ \E ex \in BiomechMovements : Classify(ex)
  \/ \E ex \in BiomechMovements, c \in ValidationContexts : ValidateExercise(ex, c)
  \/ \E ex \in BiomechMovements, cat \in AdaptCatalogs : AdaptExerciseNoAnchor(ex, cat)
  \/ \E ex \in BiomechMovements, t \in SizingTargets, f \in SizingFlags :
       Pack(ex, t, "posterior", f)

SpecBiomech == Init /\ [][NextBiomech]_vars

-----------------------------------------------------------------------------
(* C21: the per-movement validation gate *)

validated == lastOp.op = "validateExercise"

\* the four hard rules of the validation gate
hingeOnRunDay == lastOp.ctx.runDay /\ lastOp.exercise.hinge

compressiveWhileFasting == lastOp.ctx.fasting /\ lastOp.exercise.compressiveLoad > 1

plyometricInDeload == lastOp.ctx.deload /\ lastOp.exercise.pattern = "plyometric"

bandOverMax == lastOp.ctx.band > lastOp.exercise.allowedMaxBand

\* C21: validateExercise rejects a movement exactly when one of the four hard
\* rules holds: hinge on a run day, compressiveLoad > 1 while fasting,
\* plyometric during a deload, band greater than allowedMaxBand.
C21_FourHardRules ==
  validated =>
    (~ret[1] <=> \/ hingeOnRunDay
                 \/ compressiveWhileFasting
                 \/ plyometricInDeload
                 \/ bandOverMax)

-----------------------------------------------------------------------------
(* C22: sizing a movement the validation gate rejects *)

packed == lastOp.op = "pack"

\* validateExercise(ex, { ...ctx, band: t.band }) of the sizing step said ok: false
rejectedInSizing ==
  ~validateExercise(lastOp.exercise, [ fasting |-> lastOp.ctx.fasting, runDay |-> lastOp.ctx.runDay,
                                       band |-> lastOp.target.band ])

\* one level down the band menu (the lowest level stays)
oneBandDown(b) == BAND_MENU[Max2(1, bandIndexOf(b))]

\* C22: when the validation gate rejects the movement of a slot during sizing,
\* the item is still produced, with the band one level of the band menu below
\* the target's band and with one set less than the target, not below 1.
C22_RejectionStepDown ==
  (packed /\ rejectedInSizing /\ ret[1].unit = "reps") =>
    /\ ret[1].band = <<oneBandDown(lastOp.target.band)>>
    /\ ret[1].sets = Max2(1, lastOp.target.sets - 1)

-----------------------------------------------------------------------------
(* C23: the band of a plan item and the movement's allowedMaxBand *)

strengthItems == ret[1].blocks.strength

-----------------------------------------------------------------------------
(* C24: the session-level warnings of a generated plan *)

RECURSIVE setsOfMovementFamily(_, _)
\* the sets of the items whose movement classify puts in family fam
setsOfMovementFamily(items, fam) ==
  IF Len(items) = 0 THEN 0
  ELSE (IF movementOf(Head(items)).family = fam THEN Head(items).sets ELSE 0)
       + setsOfMovementFamily(Tail(items), fam)

hingeItems == { i \in 1..Len(strengthItems) : movementOf(strengthItems[i]).hinge }

sessionWarnings == { ret[1].meta.sessionWarnings[i] : i \in 1..Len(ret[1].meta.sessionWarnings) }

\* C24: the plan generateSession returns carries the posterior-overload warning
\* in meta.sessionWarnings whenever the sets of its posterior movements exceed
\* 1.2 times the sets of its upper (pull) movements, and the hinge warning
\* whenever its strength block has more than 2 hinge items.
C24_SessionWarnings ==
  planned =>
    /\ ( setsOfMovementFamily(strengthItems, "posterior") * 10
           > setsOfMovementFamily(strengthItems, "upper") * 12 )
         => "posteriorOverload" \in sessionWarnings
    /\ Cardinality(hingeItems) > 2 => "tooManyHinge" \in sessionWarnings

-----------------------------------------------------------------------------
(* C25: one movement per slot *)

\* the key the selection de-duplicates by: the id, or the name when there is no id
itemKey(it) == IF it.id # "" THEN it.id ELSE it.name

\* C25: no two strength items of a generated plan are the same movement.
C25_NoDuplicateMovement ==
  planned =>
    \A i, j \in 1..Len(strengthItems) :
      i # j => itemKey(strengthItems[i]) # itemKey(strengthItems[j])

-----------------------------------------------------------------------------
(* The time closure of generateSession, one pass of its two loops at a time:  *)
(* ret holds the blocks of the session under construction, lastOp the loop    *)
(* the call is in, its guard counter and the blocks before the last pass.     *)

\* generateSession up to the call of fillStrengthIfTooShort
BuildPlan(f) ==
  /\ Len(db) > 0
  /\ lastOp.op = "loadDB"
  /\ \E p \in { builtPlan(db[1], f, lsState, today) } :
       /\ ret' = <<p.blocks>>
       /\ lastOp' = [ op |-> "fill", flags |-> f, targetSec |-> p.c.minutes * 60,
                      guard |-> 40, prev |-> << >>, built |-> p.blocks, direct |-> FALSE ]
  /\ UNCHANGED <<lsState, lsToday, lsHistory, lsExport, db, ui, currentSession, today, nApplied,
                 preClamp, rngX, firstRet>>

\* the targets closeToMinutes is given when it is called on its own
DirectMinutes == {1, 12}

\* targets without warmup and mobility members: the blocks are then built from
\* the examples of TrainingKnowledge.dosingTemplates
templateTargets == [ meta |-> << >> ]

\* closeToMinutes(session, targetMinutes) called on its own, with a target of
\* the caller's choice, on the blocks as built; with fromTemplates the warm-up
\* and mobility blocks are those of the dosing templates
CloseDirect(f, targetMinutes, fromTemplates) ==
  /\ Len(db) > 0
  /\ lastOp.op = "loadDB"
  /\ \E p \in { builtPlan(db[1], f, lsState, today) } :
       \E blocks \in { IF fromTemplates
                       THEN [p.blocks EXCEPT !.warmup = buildWarmupBlock(templateTargets),
                                             !.mobility = buildMobilityBlock(templateTargets)]
                       ELSE p.blocks } :
         /\ ret' = <<blocks>>
         /\ lastOp' = [ op |-> "close", flags |-> f, targetSec |-> targetMinutes * 60,
                        guard |-> 50, prev |-> << >>, built |-> blocks, direct |-> TRUE ]
  /\ UNCHANGED <<lsState, lsToday, lsHistory, lsExport, db, ui, currentSession, today, nApplied,
                 preClamp, rngX, firstRet>>

\* sec < targetSec * 0.92 && guard-- > 0, and the pass does not break
fillContinues ==
  /\ lastOp.op \in {"fill", "fillPass"}
  /\ totalSec(ret[1]) * 100 < lastOp.targetSec * 92
  /\ lastOp.guard > 0
  /\ Len(fillStep(ret[1])) > 0

\* one pass of the while loop of fillStrengthIfTooShort
FillPass ==
  /\ fillContinues
  /\ ret' = fillStep(ret[1])
  /\ lastOp' = [lastOp EXCEPT !.op = "fillPass", !.guard = @ - 1, !.prev = ret]
  /\ UNCHANGED <<lsState, lsToday, lsHistory, lsExport, db, ui, currentSession, today, nApplied,
                 preClamp, rngX, firstRet>>

\* fillStrengthIfTooShort returns and closeToMinutes is entered
FillReturn ==
  /\ lastOp.op \in {"fill", "fillPass"}
  /\ ~fillContinues
  /\ lastOp' = [ op |-> "close", flags |-> lastOp.flags, targetSec |-> lastOp.targetSec,
                 guard |-> 50, prev |-> << >>, built |-> lastOp.built, direct |-> FALSE,
                 fillGuard |-> lastOp.guard ]
  /\ UNCHANGED <<lsState, lsToday, lsHistory, lsExport, db, ui, currentSession, today, nApplied,
                 preClamp, rngX, firstRet, ret>>

\* sec > targetSec && guard-- > 0, and the pass does not break
closeContinues ==
  /\ lastOp.op \in {"close", "closePass"}
  /\ totalSec(ret[1]) > lastOp.targetSec
  /\ lastOp.guard > 0
  /\ Len(closeStep(ret[1])) > 0

\* one pass of the while loop of closeToMinutes
ClosePass ==
  /\ closeContinues
  /\ ret' = closeStep(ret[1])
  /\ lastOp' = [lastOp EXCEPT !.op = "closePass", !.guard = @ - 1, !.prev = ret]
  /\ UNCHANGED <<lsState, lsToday, lsHistory, lsExport, db, ui, currentSession, today, nApplied,
                 preClamp, rngX, firstRet>>

\* closeToMinutes returns
CloseReturn ==
  /\ lastOp.op \in {"close", "closePass"}
  /\ ~closeContinues
  /\ lastOp' = [lastOp EXCEPT !.op = "closed", !.prev = << >>]
  /\ UNCHANGED <<lsState, lsToday, lsHistory, lsExport, db, ui, currentSession, today, nApplied,
                 preClamp, rngX, firstRet, ret>>

NextClosure ==
  \/ \E st \in PlanStates : SetState(st)
  \/ LoadDB(Catalogs)
  \/ \E f \in AllFlags : BuildPlan(f)
  \/ \E f \in SizingFlags, m \in DirectMinutes, tpl \in BOOLEAN : CloseDirect(f, m, tpl)
  \/ FillPass
  \/ FillReturn
  \/ ClosePass
  \/ CloseReturn

SpecClosure == Init /\ [][NextClosure]_vars

\* a call that has entered the time closure runs on to its return
SpecClosureRuns ==
  SpecClosure /\ WF_vars(FillPass \/ FillReturn \/ ClosePass \/ CloseReturn)

-----------------------------------------------------------------------------
(* C26, C27: the order of the trimming and of the filling passes *)

closePassed == lastOp.op = "closePass"

fillPassed == lastOp.op = "fillPass"

\* the blocks before and after the last pass
prevBlocks == lastOp.prev[1]

nowBlocks == ret[1]

\* nothing but the sets of the family's item has changed, and they by d
onlySetsChanged(fam, d) ==
  /\ nowBlocks.warmup = prevBlocks.warmup
  /\ nowBlocks.mobility = prevBlocks.mobility
  /\ nowBlocks.coreControl = prevBlocks.coreControl
  /\ nowBlocks.cooldown = prevBlocks.cooldown
  /\ Len(nowBlocks.strength) = Len(prevBlocks.strength)
  /\ \E i \in 1..Len(prevBlocks.strength) :
       /\ prevBlocks.strength[i].family = fam
       /\ nowBlocks.strength[i] = [prevBlocks.strength[i] EXCEPT !.sets = @ + d]
       /\ \A j \in 1..Len(prevBlocks.strength) :
            j # i => nowBlocks.strength[j] = prevBlocks.strength[j]

\* nothing but the last item of the warm-up (of the mobility block) has gone
onlyLastItemDropped(block) ==
  /\ Len(nowBlocks[block]) = Len(prevBlocks[block]) - 1
  /\ nowBlocks[block] = SubSeq(prevBlocks[block], 1, Len(prevBlocks[block]) - 1)
  /\ \A other \in DOMAIN prevBlocks \ {block} : nowBlocks[other] = prevBlocks[other]

\* nothing but one rest has changed: it was above 20 and is 5 shorter, not below 20
onlyRestShortened ==
  /\ \A other \in DOMAIN prevBlocks \ {"strength"} : nowBlocks[other] = prevBlocks[other]
  /\ Len(nowBlocks.strength) = Len(prevBlocks.strength)
  /\ \E i \in 1..Len(prevBlocks.strength) :
       /\ prevBlocks.strength[i].restSec > 20
       /\ nowBlocks.strength[i] = [prevBlocks.strength[i] EXCEPT !.restSec = Max2(20, @ - 5)]
       /\ \A j \in 1..Len(prevBlocks.strength) :
            j # i => nowBlocks.strength[j] = prevBlocks.strength[j]

\* C26: a trimming pass runs only while the total is above the target and does
\* the first thing possible of: one set off posterior, off push, off pull (an
\* item with more than 1 set), the last warm-up item, the last mobility item (a
\* block with more than 1 item), 5 s off a rest above 20 s, not below 20 s. No
\* strength item goes below 1 set.
C26_TrimmingOrder ==
  closePassed =>
    /\ totalSec(prevBlocks) > lastOp.targetSec
    /\ IF setsOf(prevBlocks.strength, "posterior") > 1 THEN onlySetsChanged("posterior", -1)
       ELSE IF setsOf(prevBlocks.strength, "push") > 1 THEN onlySetsChanged("push", -1)
       ELSE IF setsOf(prevBlocks.strength, "pull") > 1 THEN onlySetsChanged("pull", -1)
       ELSE IF Len(prevBlocks.warmup) > 1 THEN onlyLastItemDropped("warmup")
       ELSE IF Len(prevBlocks.mobility) > 1 THEN onlyLastItemDropped("mobility")
       ELSE onlyRestShortened
    /\ \A i \in 1..Len(nowBlocks.strength) : nowBlocks.strength[i].sets >= 1

\* a rest is shortened to 20 s after every set, warm-up item and mobility item
\* that could go has gone
C26_Witness ==
  /\ closePassed
  /\ Len(lastOp.built.warmup) = 3 /\ Len(nowBlocks.warmup) = 1
  /\ Len(lastOp.built.mobility) = 2 /\ Len(nowBlocks.mobility) = 1
  /\ setsOf(lastOp.built.strength, "posterior") > 1
  /\ \A i \in 1..Len(nowBlocks.strength) : nowBlocks.strength[i].sets = 1
  /\ \E i \in 1..Len(nowBlocks.strength) :
       nowBlocks.strength[i].restSec = 20 /\ prevBlocks.strength[i].restSec > 20

\* the ceiling of the posterior item in a filling pass
posteriorCeiling == Min2(4, Max2(1, (setsOf(prevBlocks.strength, "pull") * 12) \div 10))

\* C27: a filling pass runs only while the total is below 92% of the target
\* and adds one set to the first of: pull while below 6, push while below 6,
\* posterior while below min(4, max(1, floor(1.2 * pull sets))). It changes
\* nothing else, so no set is ever removed.
C27_FillingOrder ==
  fillPassed =>
    /\ totalSec(prevBlocks) * 100 < lastOp.targetSec * 92
    /\ IF findFamily(prevBlocks.strength, "pull") # 0 /\ setsOf(prevBlocks.strength, "pull") < 6
       THEN onlySetsChanged("pull", 1)
       ELSE IF findFamily(prevBlocks.strength, "push") # 0 /\ setsOf(prevBlocks.strength, "push") < 6
       THEN onlySetsChanged("push", 1)
       ELSE /\ setsOf(prevBlocks.strength, "posterior") < posteriorCeiling
            /\ onlySetsChanged("posterior", 1)

\* pull and push are at 6 and the posterior item gets its fourth set
C27_Witness ==
  /\ fillPassed
  /\ setsOf(prevBlocks.strength, "pull") = 6
  /\ setsOf(prevBlocks.strength, "push") = 6
  /\ setsOf(prevBlocks.strength, "posterior") = 3
  /\ setsOf(nowBlocks.strength, "posterior") = 4

-----------------------------------------------------------------------------
(* C28: the time closure terminates within its guards *)

inFill == lastOp.op \in {"fill", "fillPass"}

inClose == lastOp.op \in {"close", "closePass"}

closureReturned == lastOp.op = "closed"

\* the passes a loop has made are its guard's start value less what is left
guardsWithinBounds ==
  /\ inFill => lastOp.guard \in 0..40
  /\ (inClose \/ closureReturned) => lastOp.guard \in 0..50

\* on a plan sized from getTargets both loops return with guard left
guardsNotExhausted ==
  (closureReturned /\ ~lastOp.direct) => (lastOp.fillGuard > 0 /\ lastOp.guard > 0)

\* C28: a call that has entered the time closure returns from it; the filling
\* loop makes at most 40 passes and the trimming loop at most 50; on plans
\* sized from getTargets both loops end with their guard not exhausted.
C28_ClosureTerminates ==
  /\ [](guardsWithinBounds /\ guardsNotExhausted)
  /\ ((inFill \/ inClose) ~> closureReturned)

\* a call of generateSession has returned after ten or more filling passes
C28_Witness ==
  /\ closureReturned
  /\ ~lastOp.direct
  /\ lastOp.fillGuard <= 30
  /\ totalSec(ret[1]) <= lastOp.targetSec

-----------------------------------------------------------------------------
(* C29: the no-anchor adaptation *)

adapted == lastOp.op = "adaptExerciseNoAnchor"

\* the anchor-free subset of the pool
anchorFree == { i \in 1..Len(lastOp.all) : ~lastOp.all[i].requiresAnchor }

\* the catalog declares a substitute the call can find
declaredSubstitute ==
  \/ Len(lastOp.exercise.adaptedVersion) > 0
  \/ /\ lastOp.exercise.adaptedId # ""
     /\ \E i \in 1..Len(lastOp.all) : lastOp.all[i].id = lastOp.exercise.adaptedId

\* C29: adaptNoAnchor returns a movement that needs no anchor as it is; for a
\* movement that needs one it reports not-ok only when there is no declared
\* substitute and no anchor-free candidate of the same pattern or of the same
\* family; whenever it reports ok the movement returned needs no anchor.
C29_AdaptNoAnchor ==
  adapted =>
    /\ ~lastOp.exercise.requiresAnchor => (ret[1].ok /\ ret[1].exercise = lastOp.exercise)
    /\ ~ret[1].ok =>
         /\ ~declaredSubstitute
         /\ \A i \in anchorFree : /\ lastOp.all[i].pattern # lastOp.exercise.pattern
                                  /\ lastOp.all[i].family # lastOp.exercise.family
    /\ ret[1].ok => ~ret[1].exercise.requiresAnchor

-----------------------------------------------------------------------------
(* C30: the lumbar risk score *)

classified == lastOp.op = "classify"

\* C30: the lumbarRisk of a classified movement is its compressiveLoad plus
\* its shearLoad, less 1 for an isometric movement, clamped to 0..3.
C30_LumbarRiskScore ==
  classified =>
    /\ ret[1].lumbarRisk =
         clamp(ret[1].compressiveLoad + ret[1].shearLoad - (IF ret[1].isIsometric THEN 1 ELSE 0),
               0, 3)
    /\ ret[1].lumbarRisk \in 0..3

-----------------------------------------------------------------------------
(* Results applied on days of the caller's choice: the days pass one at a     *)
(* time and a result may be applied on any of them, more than once a day.     *)

MaxStreakDay == 4

MaxStreakSessions == 4

DayPasses ==
  /\ today < MaxStreakDay
  /\ today' = today + 1
  /\ lastOp' = [op |-> "tick"]
  /\ ret' = << >>
  /\ UNCHANGED <<lsState, lsToday, lsHistory, lsExport, db, ui, currentSession, nApplied,
                 preClamp, rngX, firstRet>>

\* StudyEngine.applySessionResult(undefined, { dayKey: today, rpe3, summary })
ApplyToday ==
  /\ nApplied < MaxStreakSessions
  /\ \E s \in {loadState(lsState)}, rpe3 \in {MOD, HARD} :
       /\ ApplyResult(s, [ dayKey |-> today, rpe3 |-> rpe3,
                           summary |-> [pull |-> 20, push |-> 20, posterior |-> 20, core |-> 0] ])
       /\ lastOp' = [op |-> "applySessionResult", rpe3 |-> rpe3, state |-> s]
  /\ UNCHANGED <<lsToday, lsHistory, lsExport, db, ui, currentSession, today, rngX, firstRet>>

NextStreak == DayPasses \/ ApplyToday

SpecStreak == Init /\ [][NextStreak]_vars

-----------------------------------------------------------------------------
(* C31: the streak *)

\* C31: an applySessionResult call sets the streak to 1 when no day was
\* completed before, adds 1 when the result's day is the day after
\* lastCompletedDay, resets it to 1 when it is more than one day after, leaves
\* it when it is the same day; lastCompletedDay becomes the result's day.
C31_StreakUpdate ==
  applied =>
    /\ stored.lastCompletedDay = today
    /\ stored.streak =
         IF lastOp.state.lastCompletedDay = NoDay THEN 1
         ELSE IF today = lastOp.state.lastCompletedDay + 1 THEN lastOp.state.streak + 1
         ELSE IF today > lastOp.state.lastCompletedDay + 1 THEN 1
         ELSE lastOp.state.streak

\* a streak of 2 is reset by a result that comes two days after the last one
C31_Witness ==
  /\ applied
  /\ lastOp.state.streak = 2
  /\ today = lastOp.state.lastCompletedDay + 2
  /\ stored.streak = 1
  /\ stored.lastCompletedDay = today

-----------------------------------------------------------------------------
(* Ranges of the targets *)

inRepMenu(reps) == \E i \in 1..Len(REP_MENU) : REP_MENU[i] = reps

inBandMenu(band) == \E i \in 1..Len(BAND_MENU) : BAND_MENU[i] = band

targetsReturned == lastOp.op \in {"getTargets", "getTargetsOf"}

\* C32: the targets getTargets returns, for the stored state or for a state
\* handed to it and under every context, have pull and push sets in 2..6,
\* posterior sets in 1..4, core sets in 1..4, a core hold in 15..60 seconds,
\* reps taken from the rep menu and bands taken from the band menu.
C32_TargetRanges ==
  targetsReturned =>
    /\ ret[1].strength.pull.sets \in 2..6
    /\ ret[1].strength.push.sets \in 2..6
    /\ ret[1].strength.posterior.sets \in 1..4
    /\ ret[1].core.sets \in 1..4
    /\ ret[1].core.seconds \in 15..60
    /\ \A fam \in RepFamilies :
         inRepMenu(ret[1].strength[fam].reps) /\ inBandMenu(ret[1].strength[fam].band)

\* a state whose records are outside every range: the sets, the hold, the rep
\* index and the band were all brought back
C32_Witness ==
  /\ lastOp.op = "getTargetsOf"
  /\ lastOp.state.prog.pull = [repIndex |-> 9, band |-> 40, setBase |-> 9]
  /\ lastOp.state.prog.core = [setBase |-> 0, holdSeconds |-> 90]
  /\ ret[1].strength.pull = [sets |-> 6, reps |-> 20, band |-> 15, rest |-> ret[1].strength.pull.rest]
  /\ ret[1].strength.push.sets = 2 /\ ret[1].strength.push.reps = 8
  /\ ret[1].core.sets = 1 /\ ret[1].core.seconds = 60

-----------------------------------------------------------------------------
(* C33: the duration estimate, recomputed from the items of the plan *)

\* sets * unitTime + (sets - 1) * rest + the transition seconds the item carries
statedSeconds(it) ==
  LET unitTime == IF it.unit = "seconds" THEN it.seconds[1]
                  ELSE it.reps[1] * (it.tempo.down + it.tempo.hold + it.tempo.up)
  IN  it.sets * unitTime + (it.sets - 1) * it.restSec + it.transitionSec

RECURSIVE statedSum(_)
statedSum(list) ==
  IF Len(list) = 0 THEN 0 ELSE statedSeconds(Head(list)) + statedSum(Tail(list))

statedTotal(blocks) ==
  statedSum(blocks.warmup) + statedSum(blocks.mobility) + statedSum(blocks.strength)
    + statedSum(blocks.coreControl) + statedSum(blocks.cooldown)

\* C33: meta.estimatedSeconds of the plan generateSession returns is the sum,
\* over the items of its five blocks, of sets * unitTime + (sets - 1) * rest
\* + the item's own transition seconds.
C33_DurationEstimate ==
  planned => ret[1].meta.estimatedSeconds = statedTotal(ret[1].blocks)

-----------------------------------------------------------------------------
(* C34: the session history *)

completes == lastOp'.op = "completeWorkout" /\ nApplied' = nApplied + 1

-----------------------------------------------------------------------------
(* StudyEngine: loadState on stored values the engine did not write *)

\* a stored text JSON.parse throws on
Unparsable == [unparsable |-> TRUE]

TopMembers ==
  { "version", "week", "sessionInWeek", "streak", "lastCompletedDay", "hardSessionsInRow",
    "deloadArmed", "prog" }

FamilyNames == {"pull", "push", "posterior", "core"}

\* the members of the flat document that hold the record of family f
flatMembers(f) ==
  IF f = "core" THEN {"core_holdSeconds", "core_setBase"}
  ELSE IF f = "pull" THEN {"pull_repIndex", "pull_band", "pull_setBase"}
  ELSE IF f = "push" THEN {"push_repIndex", "push_band", "push_setBase"}
  ELSE {"posterior_repIndex", "posterior_band", "posterior_setBase"}

\* a state every member of which differs from the default state
SavedState ==
  [ version |-> "3.0", week |-> 5, sessionInWeek |-> 2, streak |-> 3, lastCompletedDay |-> 1,
    hardSessionsInRow |-> 1, deloadArmed |-> TRUE,
    prog |-> [ pull |-> rec(4, 25, 4), push |-> rec(3, 35, 5), posterior |-> rec(2, 25, 3),
               core |-> [holdSeconds |-> 40, setBase |-> 3] ] ]

\* the document of SavedState with only the members keep and, under prog, only
\* the families fams
partialDoc(keep, fams) ==
  LET full == jstringState(SavedState)
      dom == keep \cup (IF "prog" \in keep THEN UNION { flatMembers(f) : f \in fams } ELSE {})
  IN  [k \in dom |-> IF k = "prog" THEN fams ELSE full[k]]

\* a document whose prog member is the number 1: the member prog_number marks it
numberProgDoc(keep) ==
  [k \in keep \cup {"prog", "prog_number"} |->
     IF k = "prog" THEN {} ELSE IF k = "prog_number" THEN 1 ELSE jstringState(SavedState)[k]]

\* what localStorage can hold under LS_KEY: nothing, a text that is not JSON,
\* a document with some members missing, a document whose prog is a number
StoredBlobs ==
  { << >>, << Unparsable >> }
    \cup { << partialDoc(keep, fams) >> :
             keep \in SUBSET TopMembers, fams \in {FamilyNames, {"pull", "core"}, {}} }
    \cup { << numberProgDoc(keep) >> : keep \in SUBSET (TopMembers \ {"prog"}) }

\* jparse(raw, null): null for no entry and for a text JSON.parse throws on
jparseOrNull(raw) == IF Len(raw) = 0 \/ raw = << Unparsable >> THEN << >> ELSE raw

\* st.prog.pull = ... in strict mode, on a prog that is a number: TypeError
assignThrows(raw) == Len(jparseOrNull(raw)) > 0 /\ "prog_number" \in DOMAIN raw[1]

\* StudyEngine.getState() with raw under LS_KEY
LoadStored(raw) ==
  /\ lastOp.op = "init"
  /\ lsState' = raw
  /\ ret' = IF assignThrows(raw) THEN << >> ELSE << loadState(jparseOrNull(raw)) >>
  /\ lastOp' = [op |-> "loadState", threw |-> assignThrows(raw)]
  /\ UNCHANGED <<lsToday, lsHistory, lsExport, db, ui, currentSession, today, nApplied,
                 preClamp, rngX, firstRet>>

NextLoad == \E raw \in StoredBlobs : LoadStored(raw)

SpecLoad == Init /\ [][NextLoad]_vars

loadedStored == lastOp.op = "loadState"

\* the members of the stored document, none for no entry or an unparsable one
storedMembers == IF Len(jparseOrNull(lsState)) = 0 THEN {} ELSE DOMAIN lsState[1]

\* C35: loadState does not fail on a missing, unparsable or partial stored
\* value; the state it returns has week, sessionInWeek, streak,
\* hardSessionsInRow, deloadArmed and all four family records; every member
\* and every family record the stored document has is returned as stored.
C35_LoadDefaults ==
  loadedStored =>
    /\ ~lastOp.threw
    /\ {"week", "sessionInWeek", "streak", "hardSessionsInRow", "deloadArmed", "prog"}
         \subseteq DOMAIN ret[1]
    /\ ret[1].week \in Int /\ ret[1].sessionInWeek \in Int /\ ret[1].streak \in Int
    /\ ret[1].hardSessionsInRow \in Int /\ ret[1].deloadArmed \in BOOLEAN
    /\ DOMAIN ret[1].prog = FamilyNames
    /\ \A k \in (storedMembers \cap TopMembers) \ {"prog"} : ret[1][k] = lsState[1][k]
    /\ "prog" \in storedMembers =>
         \A f \in lsState[1].prog : ret[1].prog[f] = SavedState.prog[f]

-----------------------------------------------------------------------------
(* BiomechanicalEngine v1.0: generateSession, one pass of its while loop at   *)
(* a time. A stress is held in tenths. A catalog entry carries, in words,     *)
(* the substrings classifyExercise looks for that its lower-cased name has.   *)

MAX_SESSION_STRESS == 100

MAX_HINGE_PER_SESSION == 2

\* BAND_FACTOR[band], in tenths
bandFactor(band) == IF band = 15 THEN 10 ELSE IF band = 25 THEN 14 ELSE 18

classifyExercise(ex) ==
  LET hinge == ex.words \cap {"rdl", "hinge", "good morning"} # {}
      antiRotation == "pallof" \in ex.words
      antiExtension == "plank" \in ex.words
  IN  [ name |-> ex.name, family |-> ex.family,
        hinge |-> hinge, antiRotation |-> antiRotation, antiExtension |-> antiExtension,
        compressiveLoad |-> IF ex.family = "core" THEN 0
                            ELSE IF ex.family = "lower" /\ ~hinge THEN 1
                            ELSE IF hinge THEN 2 ELSE 1,
        shearLoad |-> IF ex.family = "core" THEN (IF antiRotation THEN 0 ELSE 1)
                      ELSE IF ex.family = "lower" /\ ~hinge THEN 1
                      ELSE IF hinge THEN 2 ELSE 1,
        lumbarStress |-> IF hinge THEN 2 ELSE 1 ]

\* in tenths
calcExerciseStress(ex, sets, band) ==
  (ex.compressiveLoad + ex.shearLoad + ex.lumbarStress) * sets * bandFactor(band)

safetyFilter(candidate, context, sessionState) ==
  IF candidate.hinge /\ sessionState.hingeCount >= MAX_HINGE_PER_SESSION THEN FALSE
  ELSE IF context.runDay /\ candidate.hinge THEN FALSE
  ELSE IF context.fasting /\ candidate.compressiveLoad > 1 THEN FALSE
  ELSE IF sessionState.totalStress + calcExerciseStress(candidate, context.sets, context.band)
            > MAX_SESSION_STRESS * 10 THEN FALSE
  ELSE TRUE

v1Rdl == [name |-> "Band RDL", family |-> "lower", words |-> {"rdl"}]

v1GoodMorning == [name |-> "Good morning", family |-> "lower", words |-> {"good morning"}]

v1Row == [name |-> "Band row", family |-> "upper", words |-> {}]

v1Squat == [name |-> "Squat", family |-> "lower", words |-> {}]

v1Plank == [name |-> "Plank", family |-> "core", words |-> {"plank"}]

v1Pallof == [name |-> "Pallof press", family |-> "core", words |-> {"pallof"}]

\* the flattened catalogs: mixed, hinges only, none
SelectCatalogs ==
  { <<v1Row, v1Rdl, v1Squat, v1Plank, v1Pallof>>, <<v1Row, v1Rdl, v1GoodMorning, v1Plank>>,
    <<v1Rdl, v1GoodMorning>>, << >> }

\* sets as decideStructure gives them, band from the options; SessionEngine 1.0
\* asks for one exercise per call
SelectContexts ==
  [ runDay : BOOLEAN, fasting : BOOLEAN, sets : {2, 3, 4}, band : {15, 25, 35},
    targetExerciseCount : {1, 3} ]

selecting == lastOp.op = "selecting"

\* generateSession(exerciseDB, context) up to the while
SelectStart(exerciseDB, context) ==
  /\ lastOp.op = "init"
  /\ lastOp' = [ op |-> "selecting", context |-> context,
                 allExercises |-> [i \in 1..Len(exerciseDB) |-> classifyExercise(exerciseDB[i])],
                 session |-> << >>, totalStress |-> 0, hingeCount |-> 0 ]
  /\ ret' = << >>
  /\ UNCHANGED <<lsState, lsToday, lsHistory, lsExport, db, ui, currentSession, today, nApplied,
                 preClamp, rngX, firstRet>>

\* one pass of the while body, Math.random drawing position randomIndex: the
\* continue leaves everything as it was; with no exercise the candidate is
\* undefined and safetyFilter throws a TypeError
SelectPass(randomIndex) ==
  /\ selecting
  /\ Len(lastOp.session) < lastOp.context.targetExerciseCount
  /\ randomIndex < Max2(1, Len(lastOp.allExercises))
  /\ IF Len(lastOp.allExercises) = 0
     THEN lastOp' = [op |-> "selectThrew"]
     ELSE \E candidate \in { lastOp.allExercises[randomIndex + 1] } :
            IF ~safetyFilter(candidate, lastOp.context, lastOp)
            THEN lastOp' = lastOp
            ELSE lastOp' =
                   [lastOp EXCEPT
                      !.session = Append(@, candidate),
                      !.totalStress = @ + calcExerciseStress(candidate, lastOp.context.sets,
                                                             lastOp.context.band),
                      !.hingeCount = IF candidate.hinge THEN @ + 1 ELSE @]
  /\ UNCHANGED <<lsState, lsToday, lsHistory, lsExport, db, ui, currentSession, today, nApplied,
                 preClamp, rngX, firstRet, ret>>

\* the while condition is false: the return
SelectReturn ==
  /\ selecting
  /\ ~(Len(lastOp.session) < lastOp.context.targetExerciseCount)
  /\ ret' = << [ exercises |-> lastOp.session, totalStress |-> lastOp.totalStress,
                 hingeCount |-> lastOp.hingeCount ] >>
  /\ lastOp' = [op |-> "selected", context |-> lastOp.context]
  /\ UNCHANGED <<lsState, lsToday, lsHistory, lsExport, db, ui, currentSession, today, nApplied,
                 preClamp, rngX, firstRet>>

MaxCatalogLen == 5

SelectPasses == \E randomIndex \in 0..(MaxCatalogLen - 1) : SelectPass(randomIndex)

NextSelect ==
  \/ \E exerciseDB \in SelectCatalogs, context \in SelectContexts : SelectStart(exerciseDB, context)
  \/ SelectPasses
  \/ SelectReturn

SpecSelect == Init /\ [][NextSelect]_vars

\* the loop keeps running: a pass that changes something, or the return, is
\* taken when it stays possible
SpecSelectRuns == SpecSelect /\ WF_vars(SelectPasses \/ SelectReturn)

selectEnded == lastOp.op \in {"selected", "selectThrew"}

\* C36: the selection loop of generateSession ends for every catalog and
\* context: once started, the call returns (or throws).
C36_SelectionTerminates == selecting ~> selectEnded

-----------------------------------------------------------------------------
(* C37: a result given with hard effort *)

hardResult == applied /\ lastOp.rpe3 = HARD

\* C37: after an applySessionResult call with hard effort, whether or not the
\* call arms the deload, every rep family has its repIndex one lower (0 stays
\* 0), a band and a setBase not above those before the call, and the core
\* hold is 5 seconds lower (not below 15).
C37_HardNeverProgresses ==
  hardResult =>
    /\ \A f \in RepFamilies :
         /\ after(f).repIndex = Max2(0, before(f).repIndex - 1)
         /\ after(f).band <= before(f).band
         /\ after(f).setBase <= before(f).setBase
    /\ stored.prog.core.holdSeconds = Max2(15, lastOp.state.prog.core.holdSeconds - 5)

\* the second hard session in a row, on a state at the floors: pull stays at
\* index 0, the other families go down one, the hold stops at 15
C37_Witness ==
  /\ hardResult
  /\ lastOp.state.hardSessionsInRow = 1 /\ stored.hardSessionsInRow = 2
  /\ before("pull").repIndex = 0 /\ after("pull").repIndex = 0
  /\ before("posterior").repIndex = 1 /\ after("posterior").repIndex = 0
  /\ lastOp.state.prog.core.holdSeconds = 17 /\ stored.prog.core.holdSeconds = 15

-----------------------------------------------------------------------------
(* Weeks of completions without hard effort, with the targets read between   *)
(* them                                                                       *)

MaxWeekSessions == 22

\* the summaries of the week runs: every target met, none met
WeekSummaries ==
  { [pull |-> 20, push |-> 20, posterior |-> 20, core |-> 0],
    [pull |-> 0,  push |-> 0,  posterior |-> 0,  core |-> 0] }

WeekFlags == { flagsOf(25, FALSE, FALSE, MOD), flagsOf(35, TRUE, TRUE, EASY) }

\* StudyEngine.applySessionResult(null, r) with easy or moderate effort
ApplyNonHard ==
  /\ nApplied < MaxWeekSessions
  /\ \E s \in {loadState(lsState)}, rpe3 \in {EASY, MOD}, sm \in WeekSummaries :
       /\ ApplyResult(s, [dayKey |-> today, rpe3 |-> rpe3, summary |-> sm])
       /\ lastOp' = [op |-> "applySessionResult", rpe3 |-> rpe3, state |-> s]
  /\ UNCHANGED <<lsToday, lsHistory, lsExport, db, ui, currentSession, today, rngX, firstRet>>

NextWeeks ==
  \/ ApplyNonHard
  \/ \E f \in WeekFlags : GetTargets(f)

SpecWeeks == Init /\ [][NextWeeks]_vars

\* the next session is the first of a week whose number is a multiple of 4:
\* week = 1 + nApplied \div 3, and the first session of a week follows a
\* multiple of 3 completions
atWeekBoundary == nApplied % 3 = 0 /\ (1 + nApplied \div 3) % 4 = 0

\* C38: from the default state (deloadArmed false), along completions without
\* hard effort, getTargets reports deload = true exactly when the session to
\* come is the first of a week whose number is a multiple of 4; once that
\* session is completed the targets of the stored state have deload = false,
\* and so they stay until the next such week.
C38_BoundaryDeloadOneSession ==
  /\ [](targetsRead => (ret[1].meta.deload <=> atWeekBoundary))
  /\ [][ (atWeekBoundary /\ nApplied' = nApplied + 1) =>
           \A f \in WeekFlags :
             /\ getTargets(loadState(lsState), getContextForToday(f, today)).meta.deload
             /\ ~getTargets(loadState(lsState'), getContextForToday(f, today)).meta.deload ]_vars

\* the targets read before the first session of week 8: the second boundary,
\* eleven sessions after the deload of week 4
C38_Witness ==
  /\ targetsRead
  /\ nApplied = 21 /\ stored.week = 8 /\ stored.sessionInWeek = 0
  /\ ~stored.deloadArmed
  /\ ret[1].meta.deload

-----------------------------------------------------------------------------
(* C39: the ranges of the stored progression state *)

\* C39: from the default state, after any sequence of applySessionResult
\* calls, every rep family has repIndex in 0..6, a band of the band menu and
\* setBase in 2..5, the core hold is in 15..60, week >= 1,
\* hardSessionsInRow >= 0, and streak >= 1 once a session has been completed.
C39_StateInRange ==
  \E st \in {stored} :
    /\ \A f \in RepFamilies :
         /\ st.prog[f].repIndex \in 0..(Len(REP_MENU) - 1)
         /\ inBandMenu(st.prog[f].band)
         /\ st.prog[f].setBase \in 2..5
    /\ st.prog.core.holdSeconds \in 15..60
    /\ st.week >= 1
    /\ st.hardSessionsInRow >= 0
    /\ nApplied > 0 => st.streak >= 1

\* every family at the top of the rep menu, of the band menu and of the base
\* sets, the hold at 60, and one more successful session applied
C39_Witness ==
  /\ applied /\ lastOp.rpe3 # HARD
  /\ nApplied = MaxProgSessions
  /\ \E st \in {stored} :
       /\ st.prog.pull = [repIndex |-> 6, band |-> 35, setBase |-> 5]
       /\ st.prog.push = [repIndex |-> 6, band |-> 35, setBase |-> 5]
       /\ st.prog.posterior = [repIndex |-> 6, band |-> 35, setBase |-> 5]
       /\ st.prog.core.holdSeconds = 60
       /\ st.streak = 2

====
